---- MODULE Spec2Model ----
(***************************************************************************)
(* Model of the WInput widget of the Midnight Commander                    *)
(* (src/lib/widget/input.c): the line buffer, the cursor (point), the      *)
(* mark and highlight, the multi-byte assembler (charbuf/charpoint), the   *)
(* global kill ring, the history list and the key handlers.                *)
(*                                                                         *)
(* Text is a sequence of bytes (the C string without its terminating NUL). *)
(* Bytes carry their real values; the texts of the model are UTF-8 texts   *)
(* over the one-byte characters ' ' (32), '.' (46), 'a' (97) and the       *)
(* two-byte character U+00E9 (195 169).  All characters are one column     *)
(* wide; none is a combining character.                                    *)
(***************************************************************************)
EXTENDS Integers, Sequences, FiniteSets, TLC

\* in: the fields of the WInput; kill_buffer: the global kill ring;
\* op, pre: the operation a single-operation specification has applied and
\* the state it applied it to; count: the characters str_is_valid_char has
\* reported complete in the typing specification, the other widgets alive
\* in the kill-ring specification, the calls of history_save () in the
\* history specification, the times the widget was drawn in the insert
\* specification (where pre holds what input_insert has still to do)
VARIABLES in, kill_buffer, op, pre, count

vars == <<in, kill_buffer, op, pre, count>>

(***************************************************************************)
(* Bounds of the model.                                                    *)
(***************************************************************************)
\* longest buffer, in characters, the editing specification lets grow
MaxLen == 1
\* longest text, in characters, of the single-operation specifications
MaxText == 3
\* longest kill-ring payload, in characters, of the yank specification
MaxKill == 2
\* the lengths of the history list in the editing specification
HistLens == {0, 1}
\* the depths of input_disable_update in the editing specification
DisableDepths == {0, 1}
\* the lengths, in characters, of the kill-ring payload and of the history
\* entries in the editing specification
PayloadLens == {0, 1}

min(a, b) == IF a < b THEN a ELSE b
max(a, b) == IF a > b THEN a ELSE b

(***************************************************************************)
(* lib/strutil: the UTF-8 string primitives input.c calls.                 *)
(***************************************************************************)
\* the bytes the model types and stores
Bytes == {32, 46, 97, 195, 169}

\* 10xxxxxx: a continuation byte
IsCont(b) == b >= 128 /\ b <= 191

\* g_utf8_skip: the length of the sequence a byte starts (0: no lead byte)
SeqLen(b) ==
    IF b < 128 THEN 1
    ELSE IF b >= 194 /\ b <= 223 THEN 2
    ELSE IF b >= 224 /\ b <= 239 THEN 3
    ELSE IF b >= 240 /\ b <= 244 THEN 4
    ELSE 0

\* str_is_valid_char (ch, size): 1 a complete character, -2 an incomplete
\* one that may still be continued, -1 a broken one
str_is_valid_char(ch) ==
    LET n == SeqLen(ch[1])
    IN  IF n = 0 THEN -1
        ELSE IF \E i \in 2..Len(ch) : ~IsCont(ch[i]) THEN -1
        ELSE IF Len(ch) < n THEN -2
        ELSE IF Len(ch) = n THEN 1
        ELSE -1

\* the tail of a text from byte position pos (0-based) on: &text[pos]
BytesFrom(text, pos) == SubSeq(text, pos + 1, Len(text))

\* the head of a text before byte position pos
BytesBefore(text, pos) == SubSeq(text, 1, pos)

\* str_cnext_char: the byte position after the character at pos
str_cnext_char(text, pos) ==
    IF pos >= Len(text) THEN pos
    ELSE min(Len(text), pos + max(1, SeqLen(text[pos + 1])))

\* str_cprev_char: the byte position of the character before pos
RECURSIVE str_cprev_char(_, _)
str_cprev_char(text, pos) ==
    IF pos <= 1 THEN 0
    ELSE IF IsCont(text[pos]) THEN str_cprev_char(text, pos - 1)
    ELSE pos - 1

\* str_length: the number of characters of a text
RECURSIVE str_length(_)
str_length(text) ==
    IF text = <<>> THEN 0
    ELSE 1 + str_length(BytesFrom(text, str_cnext_char(text, 0)))

\* str_offset_to_pos: the byte position of a character offset; an offset
\* beyond the text stops here at the terminator (the callers that can pass
\* one handle the bytes behind the terminator themselves)
RECURSIVE str_offset_to_pos(_, _)
str_offset_to_pos(text, length) ==
    IF length <= 0 \/ text = <<>> THEN 0
    ELSE LET k == str_cnext_char(text, 0)
         IN  k + str_offset_to_pos(BytesFrom(text, k), length - 1)

\* str_isspace / str_ispunct of the character at byte position pos
str_isspace(text, pos) == pos < Len(text) /\ text[pos + 1] = 32
str_ispunct(text, pos) == pos < Len(text) /\ text[pos + 1] = 46

\* str_cnext_noncomb_char / str_cprev_noncomb_char: the number of
\* characters stepped over (no combining characters: one, or none at an end)
str_cnext_noncomb_char(text, pos) == IF pos >= Len(text) THEN 0 ELSE 1
str_cprev_noncomb_char(text, pos) == IF pos <= 0 THEN 0 ELSE 1

\* str_term_width1: the display width of a text (every character one column)
str_term_width1(text) == str_length(text)

\* str_term_width2: the display width of the first `length` characters
str_term_width2(text, length) == min(max(length, 0), str_length(text))

\* str_column_to_pos: the character offset shown at a display column
str_column_to_pos(text, col) == min(max(col, 0), str_length(text))

\* str_term_substring: the characters shown from column `start` on, `width` wide
str_term_substring(text, start, width) ==
    LET a == str_offset_to_pos(text, start)
        b == str_offset_to_pos(text, start + max(width, 0))
    IN  SubSeq(text, a + 1, b)

\* the characters of the model's texts: ' ', '.', 'a' and U+00E9
Letters == {<<32>>, <<46>>, <<97>>, <<195, 169>>}

\* the UTF-8 texts of at most n characters out of cs
RECURSIVE TextsOver(_, _)
TextsOver(cs, n) ==
    IF n = 0 THEN {<<>>}
    ELSE LET T == TextsOver(cs, n - 1)
         IN  T \cup {t \o c : t \in T, c \in cs}

Texts(n) == TextsOver(Letters, n)
(***************************************************************************)
(* The state the handlers work on: the fields of one WInput and the global *)
(* kill ring.  s.charbuf holds the charpoint pending bytes; s.kill_buffer  *)
(* is <<>> for NULL and <<text>> for a payload; s.history lists the        *)
(* entries oldest first, history.list being its last link (0: NULL) and    *)
(* s.hist_current the index of history.current.  s.active says that the    *)
(* widget has an owner whose state is DLG_ACTIVE.                          *)
(***************************************************************************)
State == [buffer |-> in.buffer, point |-> in.point, mark |-> in.mark,
          highlight |-> in.highlight, charbuf |-> in.charbuf,
          first |-> in.first, need_push |-> in.need_push,
          is_highlight_cmd |-> in.is_highlight_cmd,
          is_complete_cmd |-> in.is_complete_cmd,
          completions |-> in.completions,
          term_first_shown |-> in.term_first_shown,
          disable_update |-> in.disable_update,
          current_max_size |-> in.current_max_size,
          cols |-> in.cols, active |-> in.active,
          is_password |-> in.is_password,
          strip_password |-> in.strip_password,
          hist_name |-> in.hist_name, history |-> in.history,
          hist_current |-> in.hist_current,
          hist_changed |-> in.hist_changed,
          init_from_history |-> in.init_from_history,
          kill_buffer |-> kill_buffer]

\* the WInput part of a handler's result
WInputOf(s) == [buffer |-> s.buffer, point |-> s.point, mark |-> s.mark,
          highlight |-> s.highlight, charbuf |-> s.charbuf,
          first |-> s.first, need_push |-> s.need_push,
          is_highlight_cmd |-> s.is_highlight_cmd,
          is_complete_cmd |-> s.is_complete_cmd,
          completions |-> s.completions,
          term_first_shown |-> s.term_first_shown,
          disable_update |-> s.disable_update,
          current_max_size |-> s.current_max_size,
          cols |-> s.cols, active |-> s.active,
          is_password |-> s.is_password,
          strip_password |-> s.strip_password,
          hist_name |-> s.hist_name, history |-> s.history,
          hist_current |-> s.hist_current,
          hist_changed |-> s.hist_changed,
          init_from_history |-> s.init_from_history]

HISTORY_BUTTON_WIDTH == 3

MB_LEN_MAX == 16

should_show_history_button(s) ==
    s.history # <<>> /\ s.cols > HISTORY_BUTTON_WIDTH * 2 + 1 /\ s.active

input_set_markers(s, m1) == [s EXCEPT !.mark = m1]

input_mark_cmd(s, mark) ==
    IF ~mark
    THEN input_set_markers([s EXCEPT !.highlight = FALSE], 0)
    ELSE input_set_markers([s EXCEPT !.highlight = TRUE], s.point)

\* input_eval_marks: <<found, start_mark, end_mark>>
input_eval_marks(s) ==
    IF s.highlight
    THEN <<TRUE, min(s.mark, s.point), max(s.mark, s.point)>>
    ELSE <<FALSE, 0, 0>>

\* a faulty variant: the offsets taken as byte positions
delete_region_bytes(s, x_first, x_last, junk) ==
    LET first == min(x_first, x_last)
        last == max(x_first, x_last)
        s1 == [input_mark_cmd(s, FALSE) EXCEPT !.point = first]
    IN  [s1 EXCEPT !.buffer = BytesBefore(s.buffer, first)
                                \o BytesFrom(s.buffer, last),
                   !.charbuf = <<>>,
                   !.need_push = TRUE]

\* delete_region.  With x_last beyond the text, str_offset_to_pos walks
\* over the terminator and memmove copies the string found behind it:
\* `junk` stands for those stale bytes.
delete_region(s, x_first, x_last, junk) ==
    LET first == min(x_first, x_last)
        last == max(x_first, x_last)
        s1 == [input_mark_cmd(s, FALSE) EXCEPT !.point = first]
        lastpos == str_offset_to_pos(s.buffer, last)
        firstpos == str_offset_to_pos(s.buffer, first)
        rest == IF last > str_length(s.buffer) THEN junk
                ELSE BytesFrom(s.buffer, lastpos)
    IN  [s1 EXCEPT !.buffer = BytesBefore(s.buffer, firstpos) \o rest,
                   !.charbuf = <<>>,
                   !.need_push = TRUE]
\* input_history_strip_password: user:password@host without VFS prefix
\* ('@' is 64, ':' is 58, VFS_PATH_URL_DELIMITER "://" is 58 47 47)
FirstIndex(text, from, b) ==
    LET I == {i \in from..Len(text) : text[i] = b}
    IN  IF I = {} THEN 0 ELSE CHOOSE i \in I : \A j \in I : i <= j

\* a faulty variant: the text split at its first '@'
input_history_strip_password_first(url) ==
    IF FirstIndex(url, 1, 64) = 0 \/ FirstIndex(url, 1, 58) = 0
       \/ FirstIndex(url, 1, 58) > FirstIndex(url, 1, 64)
    THEN url
    ELSE SubSeq(url, 1, FirstIndex(url, 1, 58) - 1)
             \o SubSeq(url, FirstIndex(url, 1, 64), Len(url))

input_history_strip_password(url) ==
    LET A == {i \in 1..Len(url) : url[i] = 64}
        at == IF A = {} THEN 0 ELSE CHOOSE i \in A : \A j \in A : j <= i
        D == {i \in 1..(Len(url) - 2) :
                 url[i] = 58 /\ url[i + 1] = 47 /\ url[i + 2] = 47}
        delim == IF D = {} THEN 0 ELSE CHOOSE i \in D : \A j \in D : i <= j
        colon0 == IF delim # 0 THEN FirstIndex(url, delim + 3, 58)
                  ELSE FirstIndex(url, 1, 58)
        colon == IF colon0 # 0 /\ colon0 > at THEN 0 ELSE colon0
    IN  IF at = 0 THEN url
        ELSE IF colon = 0 THEN url
        ELSE SubSeq(url, 1, colon - 1) \o SubSeq(url, at, Len(url))

\* list_append_unique (lib/util.c): append text, drop the older entries equal to it
list_append_unique(list, text) ==
    Append(SelectSeq(list, LAMBDA x : x # text), text)

\* g_strstrip leaves nothing: the text is blank
IsBlank(text) == \A i \in 1..Len(text) : text[i] = 32

\* a faulty variant: the text appended whatever the list holds
push_history_append_plain(s, t) ==
    [(IF s.history = <<>> \/ s.history[Len(s.history)] # t \/ s.hist_changed
      THEN [s EXCEPT !.history = Append(s.history, t),
                     !.hist_current = Len(s.history) + 1,
                     !.hist_changed = TRUE]
      ELSE s) EXCEPT !.need_push = FALSE]

\* push_history, with the text t to store
push_history_append(s, t) ==
    [(IF s.history = <<>> \/ s.history[Len(s.history)] # t \/ s.hist_changed
      THEN [s EXCEPT !.history = list_append_unique(s.history, t),
                     !.hist_current =
                         Len(list_append_unique(s.history, t)),
                     !.hist_changed = TRUE]
      ELSE s) EXCEPT !.need_push = FALSE]

\* a faulty variant: a blank text stored as it is
push_history_raw(s, text) ==
    push_history_append(s,
        IF s.hist_name /\ s.strip_password
        THEN input_history_strip_password(text)
        ELSE text)

push_history(s, text) ==
    push_history_append(s,
        IF IsBlank(text) THEN <<>>
        ELSE IF s.hist_name /\ s.strip_password
        THEN input_history_strip_password(text)
        ELSE text)

\* move_buffer_backward: drop the bytes of the characters [start, end)
move_buffer_backward(s, start, end) ==
    LET str_len == str_length(s.buffer)
        pos == str_offset_to_pos(s.buffer, start)
        len == str_offset_to_pos(s.buffer, end) - pos
    IN  IF start >= str_len \/ end > str_len + 1 THEN s
        ELSE [s EXCEPT !.buffer = BytesBefore(s.buffer, pos)
                                     \o BytesFrom(s.buffer, pos + len)]

\* input_free_completions
input_free_completions(s) == [s EXCEPT !.completions = FALSE]

\* a faulty variant: the cursor in the column behind the window is taken
\* for visible
input_update_behind(s, clear_first) ==
    IF s.disable_update # 0 THEN s
    ELSE IF ~s.active THEN s
    ELSE LET has_history == IF should_show_history_button(s)
                            THEN HISTORY_BUTTON_WIDTH ELSE 0
             buf_len == str_length(s.buffer)
             pw == str_term_width2(s.buffer, s.point)
             tfs == IF pw < s.term_first_shown
                       \/ pw > s.term_first_shown + s.cols - has_history
                    THEN max(pw - (s.cols \div 3), 0)
                    ELSE s.term_first_shown
         IN  [s EXCEPT !.mark = min(s.mark, buf_len),
                       !.term_first_shown = tfs,
                       !.first = IF clear_first THEN FALSE ELSE s.first]

\* input_update: the state it leaves (the mark adjusted, the point made
\* visible, first cleared); nothing when updates are disabled or the widget
\* is in no active dialog
input_update(s, clear_first) ==
    IF s.disable_update # 0 THEN s
    ELSE IF ~s.active THEN s
    ELSE LET has_history == IF should_show_history_button(s)
                            THEN HISTORY_BUTTON_WIDTH ELSE 0
             buf_len == str_length(s.buffer)
             pw == str_term_width2(s.buffer, s.point)
             tfs == IF pw < s.term_first_shown
                       \/ pw >= s.term_first_shown + s.cols - has_history
                    THEN max(pw - (s.cols \div 3), 0)
                    ELSE s.term_first_shown
         IN  [s EXCEPT !.mark = min(s.mark, buf_len),
                       !.term_first_shown = tfs,
                       !.first = IF clear_first THEN FALSE ELSE s.first]

\* a faulty variant: no room is kept for the terminator
input_assign_text_tight(s, text) ==
    LET s1 == [input_free_completions(s) EXCEPT
                   !.mark = 0, !.need_push = TRUE, !.charbuf = <<>>,
                   !.current_max_size = max(s.cols, Len(text)),
                   !.buffer = text, !.point = str_length(text)]
    IN  input_update(s1, TRUE)

input_assign_text(s, text) ==
    LET s1 == [input_free_completions(s) EXCEPT
                   !.mark = 0, !.need_push = TRUE, !.charbuf = <<>>,
                   !.current_max_size = 1 + max(s.cols, Len(text)),
                   !.buffer = text, !.point = str_length(text)]
    IN  input_update(s1, TRUE)

\* what the surroundings hand a handler while it runs: whether g_try_renew
\* finds memory (alloc), the bytes behind the buffer's terminator (junk),
\* the code read by tty_getch (getch), the text of the clipboard file
\* (clip: <<>> none, <<text>>), the entry picked in history_show (show:
\* <<>> none, <<text>>) and whether complete () found candidates (comp)
Env(alloc, junk, getch, clip, show, comp) ==
    [alloc |-> alloc, junk |-> junk, getch |-> getch, clip |-> clip,
     show |-> show, comp |-> comp]

\* no failure, nothing behind the terminator, nothing to read
Env0 == Env(TRUE, <<>>, 97, <<>>, <<>>, FALSE)

\* (char) c_code: the byte an int is stored as
ToByte(c_code) == IF c_code < 0 THEN c_code + 256 ELSE c_code

\* *p of a char pointer, handed on as an int (char is signed)
FromChar(b) == IF b >= 128 THEN b - 256 ELSE b

\* a faulty variant: the point advanced by the bytes of the character
insert_char_bytes(s, c_code, e) ==
    LET m == input_eval_marks(s)
        s1 == IF s.highlight /\ m[1]
              THEN delete_region(s, m[2], m[3], e.junk) ELSE s
        ch == Append(s1.charbuf, ToByte(c_code))
        res == str_is_valid_char(ch)
        ins_point == str_offset_to_pos(s1.buffer, s1.point)
    IN  IF c_code = -1 THEN s1
        ELSE IF res < 0
        THEN [s1 EXCEPT !.charbuf = IF res # -2 THEN <<>> ELSE ch]
        ELSE [s1 EXCEPT
                 !.need_push = TRUE,
                 !.current_max_size = s1.current_max_size + s1.cols + Len(ch),
                 !.buffer = BytesBefore(s1.buffer, ins_point) \o ch
                              \o BytesFrom(s1.buffer, ins_point),
                 !.point = s1.point + Len(ch),
                 !.charbuf = <<>>]

\* insert_char, from its test of the room left on
insert_char_fits(s, ch) ==
    IF Len(s.buffer) + Len(ch) < s.current_max_size
    THEN [s EXCEPT
             !.buffer = BytesBefore(s.buffer,
                                    str_offset_to_pos(s.buffer, s.point))
                          \o ch
                          \o BytesFrom(s.buffer,
                                       str_offset_to_pos(s.buffer, s.point)),
             !.point = s.point + 1,
             !.charbuf = <<>>]
    ELSE [s EXCEPT !.charbuf = <<>>]

\* a faulty variant: the bytes of a broken character stay in the assembler
insert_char_valid_kept(s, ch, e) ==
    IF str_is_valid_char(ch) < 0
    THEN [s EXCEPT !.charbuf = ch]
    ELSE insert_char_fits(
             [s EXCEPT
                 !.need_push = TRUE,
                 !.current_max_size =
                     IF Len(s.buffer) + 1 + Len(ch) >= s.current_max_size
                        /\ e.alloc
                     THEN s.current_max_size + s.cols + Len(ch)
                     ELSE s.current_max_size],
             ch)

\* insert_char, once charbuf holds the bytes ch: the character is broken,
\* incomplete, or complete and inserted in a buffer that is first expanded
insert_char_valid(s, ch, e) ==
    IF str_is_valid_char(ch) < 0
    THEN [s EXCEPT !.charbuf = IF str_is_valid_char(ch) # -2 THEN <<>>
                               ELSE ch]
    ELSE insert_char_fits(
             [s EXCEPT
                 !.need_push = TRUE,
                 !.current_max_size =
                     IF Len(s.buffer) + 1 + Len(ch) >= s.current_max_size
                        /\ e.alloc
                     THEN s.current_max_size + s.cols + Len(ch)
                     ELSE s.current_max_size],
             ch)

\* insert_char, behind the removal of the selection
insert_char_code(s, c_code, e) ==
    IF c_code = -1 THEN s
    ELSE IF Len(s.charbuf) >= MB_LEN_MAX THEN s
    ELSE insert_char_valid(s, Append(s.charbuf, ToByte(c_code)), e)

\* insert_char.  c_code is the int handed in.
insert_char(s, c_code, e) ==
    insert_char_code(
        IF s.highlight /\ input_eval_marks(s)[1]
        THEN delete_region(s, input_eval_marks(s)[2], input_eval_marks(s)[3],
                           e.junk)
        ELSE s,
        c_code, e)

delete_char(s) ==
    LET act == str_offset_to_pos(s.buffer, s.point)
        end == s.point + str_cnext_noncomb_char(s.buffer, act)
    IN  [move_buffer_backward(s, s.point, end) EXCEPT
            !.charbuf = <<>>, !.need_push = TRUE]

\* a faulty variant: first cleared, the text kept
port_region_marked_for_delete_kept(s) ==
    [s EXCEPT !.first = FALSE]

port_region_marked_for_delete(s) ==
    [s EXCEPT !.buffer = <<>>, !.point = 0, !.first = FALSE,
              !.charbuf = <<>>]

input_delete_selection(s, junk) ==
    LET m == input_eval_marks(s)
    IN  IF m[1] THEN delete_region(s, m[2], m[3], junk) ELSE s
input_raw_handle_char(s, key, e) ==
    input_update(insert_char(input_free_completions(s), key, e), TRUE)

(***************************************************************************)
(* The event callbacks.                                                    *)
(***************************************************************************)
\* a faulty variant: the mark is set anew at every call
mc_winput_cmd_start_highlight_anew(s) ==
    [input_mark_cmd(input_mark_cmd(s, FALSE), TRUE) EXCEPT
        !.is_highlight_cmd = TRUE]

mc_winput_cmd_start_highlight(s) ==
    LET s1 == IF ~s.highlight
              THEN input_mark_cmd(input_mark_cmd(s, FALSE), TRUE) ELSE s
    IN  [s1 EXCEPT !.is_highlight_cmd = TRUE]

mc_winput_cmd_stop_highlight(s) ==
    IF s.highlight THEN input_mark_cmd(s, FALSE) ELSE s

mc_winput_cmd_begin_of_line(s) == [s EXCEPT !.point = 0, !.charbuf = <<>>]

mc_winput_cmd_end_of_line(s) ==
    [s EXCEPT !.point = str_length(s.buffer), !.charbuf = <<>>]

mc_winput_cmd_backward_char(s) ==
    LET act == str_offset_to_pos(s.buffer, s.point)
    IN  [s EXCEPT !.point = IF s.point > 0
                            THEN s.point - str_cprev_noncomb_char(s.buffer, act)
                            ELSE s.point,
                  !.charbuf = <<>>]

\* the three loops of mc_winput_cmd_backward_word on <<p, point>>, p the
\* byte position the pointer is at
RECURSIVE backward_word_end(_, _, _)
backward_word_end(text, p, point) ==
    IF p # 0 /\ p >= Len(text)
    THEN backward_word_end(text, str_cprev_char(text, p), point - 1)
    ELSE <<p, point>>

RECURSIVE backward_word_seps(_, _, _)
backward_word_seps(text, p, point) ==
    IF p = 0 THEN <<p, point>>
    ELSE LET q == str_cprev_char(text, p)
         IN  IF ~str_isspace(text, q) /\ ~str_ispunct(text, q)
             THEN <<p, point>>
             ELSE backward_word_seps(text, q, point - 1)

RECURSIVE backward_word_word(_, _, _)
backward_word_word(text, p, point) ==
    IF p = 0 THEN <<p, point>>
    ELSE LET q == str_cprev_char(text, p)
         IN  IF str_isspace(text, q) \/ str_ispunct(text, q)
             THEN <<q, point>>
             ELSE backward_word_word(text, q, point - 1)

mc_winput_cmd_backward_word(s) ==
    LET a == backward_word_end(s.buffer,
                 str_offset_to_pos(s.buffer, s.point), s.point)
        b == backward_word_seps(s.buffer, a[1], a[2])
        c == backward_word_word(s.buffer, b[1], b[2])
    IN  [s EXCEPT !.point = c[2]]

mc_winput_cmd_forward_char(s) ==
    LET act == str_offset_to_pos(s.buffer, s.point)
    IN  [s EXCEPT !.point = IF act < Len(s.buffer)
                            THEN s.point + str_cnext_noncomb_char(s.buffer, act)
                            ELSE s.point,
                  !.charbuf = <<>>]

\* the two loops of mc_winput_cmd_forward_word on <<p, point>>
RECURSIVE forward_word_seps(_, _, _)
forward_word_seps(text, p, point) ==
    IF p < Len(text) /\ (str_isspace(text, p) \/ str_ispunct(text, p))
    THEN forward_word_seps(text, str_cnext_char(text, p), point + 1)
    ELSE <<p, point>>

\* a faulty variant: the word skipped byte by byte
RECURSIVE forward_word_word_bytes(_, _, _)
forward_word_word_bytes(text, p, point) ==
    IF p < Len(text) /\ ~str_isspace(text, p) /\ ~str_ispunct(text, p)
    THEN forward_word_word_bytes(text, p + 1, point + 1)
    ELSE <<p, point>>

RECURSIVE forward_word_word(_, _, _)
forward_word_word(text, p, point) ==
    IF p < Len(text) /\ ~str_isspace(text, p) /\ ~str_ispunct(text, p)
    THEN forward_word_word(text, str_cnext_char(text, p), point + 1)
    ELSE <<p, point>>

mc_winput_cmd_forward_word(s) ==
    LET a == forward_word_seps(s.buffer,
                 str_offset_to_pos(s.buffer, s.point), s.point)
        b == forward_word_word(s.buffer, a[1], a[2])
    IN  [s EXCEPT !.point = b[2]]

mc_winput_cmd_backspace(s, e) ==
    IF s.highlight THEN input_delete_selection(s, e.junk)
    ELSE IF s.point # 0
    THEN LET act == str_offset_to_pos(s.buffer, s.point)
             start == s.point - str_cprev_noncomb_char(s.buffer, act)
         IN  [move_buffer_backward(s, start, s.point) EXCEPT
                 !.charbuf = <<>>, !.need_push = TRUE, !.point = start]
    ELSE s

mc_winput_cmd_delete(s, e) ==
    IF s.first THEN port_region_marked_for_delete(s)
    ELSE IF s.highlight THEN input_delete_selection(s, e.junk)
    ELSE delete_char(s)

mc_winput_cmd_kill_word(s, e) ==
    LET old_point == s.point
        new_point == mc_winput_cmd_forward_word(s).point
    IN  [delete_region(s, old_point, new_point, e.junk) EXCEPT
            !.need_push = TRUE, !.charbuf = <<>>]

\* a faulty variant: everything before the cursor killed
mc_winput_cmd_back_kill_line(s, e) ==
    [delete_region(s, s.point, 0, e.junk) EXCEPT !.need_push = TRUE]

mc_winput_cmd_back_kill_word(s, e) ==
    LET old_point == s.point
        new_point == mc_winput_cmd_backward_word(s).point
    IN  [delete_region(s, old_point, new_point, e.junk) EXCEPT
            !.need_push = TRUE]

mc_winput_cmd_mark(s) == input_mark_cmd(s, TRUE)

mc_winput_cmd_remove(s, e) == delete_region(s, s.point, s.mark, e.junk)

\* a faulty variant: the text is cut at its start, the cursor left where it was
mc_winput_cmd_delete_to_end_cut0(s) ==
    [s EXCEPT !.kill_buffer = <<s.buffer>>, !.buffer = <<>>,
              !.charbuf = <<>>]

mc_winput_cmd_delete_to_end(s) ==
    LET chp == str_offset_to_pos(s.buffer, s.point)
    IN  [s EXCEPT !.kill_buffer = <<BytesFrom(s.buffer, chp)>>,
                  !.buffer = BytesBefore(s.buffer, chp),
                  !.charbuf = <<>>]

mc_winput_cmd_clear_all(s) ==
    [s EXCEPT !.need_push = TRUE, !.buffer = <<>>, !.point = 0, !.mark = 0,
              !.highlight = FALSE, !.charbuf = <<>>]
\* g_strndup (buffer + first, last - first) stops at the terminator
mc_winput_cmd_clipboard_copy(s) ==
    LET first == min(s.mark, s.point)
        last == max(s.mark, s.point)
        fpos == str_offset_to_pos(s.buffer, first)
        lpos == str_offset_to_pos(s.buffer, last)
    IN  IF last = first THEN s
        ELSE [s EXCEPT !.kill_buffer = <<SubSeq(s.buffer, fpos + 1, lpos)>>]

mc_winput_cmd_clipboard_cut(s, e) ==
    mc_winput_cmd_remove(mc_winput_cmd_clipboard_copy(s), e)

\* for (p = text; *p != '\0'; p++) insert_char (input, *p)
RECURSIVE insert_chars(_, _, _)
insert_chars(s, text, e) ==
    IF text = <<>> THEN s
    ELSE insert_chars(insert_char(s, FromChar(text[1]), e),
                      SubSeq(text, 2, Len(text)), e)

\* a faulty variant: the payload pasted at the cursor, a selection left alone
mc_winput_cmd_yank_paste(s, e) ==
    IF s.kill_buffer # <<>>
    THEN insert_chars([s EXCEPT !.highlight = FALSE], s.kill_buffer[1], e)
    ELSE s

mc_winput_cmd_yank(s, e) ==
    IF s.kill_buffer # <<>>
    THEN [insert_chars([s EXCEPT !.charbuf = <<>>], s.kill_buffer[1], e)
             EXCEPT !.charbuf = <<>>]
    ELSE s

mc_winput_cmd_clipboard_paste(s, e) ==
    IF e.clip # <<>> THEN insert_chars(s, e.clip[1], e) ELSE s

\* mc_winput_cmd_history_previous, behind push_history
history_previous_load(s) ==
    IF s.hist_current - 1 >= 1
    THEN [input_assign_text(s, s.history[s.hist_current - 1]) EXCEPT
             !.hist_current = s.hist_current - 1, !.hist_changed = TRUE,
             !.need_push = FALSE]
    ELSE s

\* a faulty variant: the pending edit is not pushed
mc_winput_cmd_history_previous_unpushed(s) ==
    IF s.history = <<>> THEN s ELSE history_previous_load(s)

mc_winput_cmd_history_previous(s) ==
    IF s.history = <<>> THEN s
    ELSE history_previous_load(
             IF s.need_push THEN push_history(s, s.buffer) ELSE s)

\* a faulty variant: behind the newest entry the buffer is left alone
mc_winput_cmd_history_next_stay(s) ==
    IF s.need_push
    THEN input_assign_text(push_history(s, s.buffer), <<>>)
    ELSE IF s.history = <<>> THEN s
    ELSE IF s.hist_current + 1 > Len(s.history) THEN s
    ELSE [input_assign_text(s, s.history[s.hist_current + 1]) EXCEPT
             !.hist_current = s.hist_current + 1, !.hist_changed = TRUE,
             !.need_push = FALSE]

mc_winput_cmd_history_next(s) ==
    IF s.need_push
    THEN input_assign_text(push_history(s, s.buffer), <<>>)
    ELSE IF s.history = <<>> THEN s
    ELSE LET next == s.hist_current + 1
         IN  IF next > Len(s.history)
             THEN [input_assign_text(s, <<>>) EXCEPT
                      !.hist_current = Len(s.history)]
             ELSE [input_assign_text(s, s.history[next]) EXCEPT
                      !.hist_current = next, !.hist_changed = TRUE,
                      !.need_push = FALSE]

\* history_show () returns the entry picked, or NULL; the list keeps its length
mc_winput_cmd_history_show(s, e) ==
    IF e.show # <<>> THEN input_assign_text(s, e.show[1]) ELSE s

\* complete () leaves its candidates in in->completions
mc_winput_cmd_complete(s, e) ==
    [s EXCEPT !.completions = e.comp, !.is_complete_cmd = TRUE]

mc_winput_cmd_enter_ctrl_sequence(s, e) ==
    input_raw_handle_char(s, e.getch, e)

\* mc_winput_init_events: the callback of an event name
RunEvent(s, ev, e) ==
    CASE ev = "start_highlight" -> mc_winput_cmd_start_highlight(s)
      [] ev = "stop_highlight" -> mc_winput_cmd_stop_highlight(s)
      [] ev = "begin_of_line" -> mc_winput_cmd_begin_of_line(s)
      [] ev = "end_of_line" -> mc_winput_cmd_end_of_line(s)
      [] ev = "backward_char" -> mc_winput_cmd_backward_char(s)
      [] ev = "backward_word" -> mc_winput_cmd_backward_word(s)
      [] ev = "forward_char" -> mc_winput_cmd_forward_char(s)
      [] ev = "forward_word" -> mc_winput_cmd_forward_word(s)
      [] ev = "backspace" -> mc_winput_cmd_backspace(s, e)
      [] ev = "delete" -> mc_winput_cmd_delete(s, e)
      [] ev = "kill_word" -> mc_winput_cmd_kill_word(s, e)
      [] ev = "back_kill_word" -> mc_winput_cmd_back_kill_word(s, e)
      [] ev = "mark" -> mc_winput_cmd_mark(s)
      [] ev = "remove" -> mc_winput_cmd_remove(s, e)
      [] ev = "delete_to_end" -> mc_winput_cmd_delete_to_end(s)
      [] ev = "clear_all" -> mc_winput_cmd_clear_all(s)
      [] ev = "clipboard_copy" -> mc_winput_cmd_clipboard_copy(s)
      [] ev = "clipboard_cut" -> mc_winput_cmd_clipboard_cut(s, e)
      [] ev = "yank" -> mc_winput_cmd_yank(s, e)
      [] ev = "clipboard_paste" -> mc_winput_cmd_clipboard_paste(s, e)
      [] ev = "history_previous" -> mc_winput_cmd_history_previous(s)
      [] ev = "history_next" -> mc_winput_cmd_history_next(s)
      [] ev = "history_show" -> mc_winput_cmd_history_show(s, e)
      [] ev = "complete" -> mc_winput_cmd_complete(s, e)
      [] ev = "enter_ctrl_sequence" -> mc_winput_cmd_enter_ctrl_sequence(s, e)

\* mc_winput_bind_events_to_keymap: the events bound to a key name, in the
\* order of the table ("" is a key bound to nothing)
KeyEvents(name) ==
    CASE name \in {"MarkLeft"} -> <<"start_highlight", "backward_char">>
      [] name \in {"MarkRight"} -> <<"start_highlight", "forward_char">>
      [] name \in {"MarkToWordBegin"} -> <<"start_highlight", "backward_word">>
      [] name \in {"MarkToWordEnd"} -> <<"start_highlight", "forward_word">>
      [] name \in {"MarkToHome"} -> <<"start_highlight", "begin_of_line">>
      [] name \in {"MarkToEnd"} -> <<"start_highlight", "end_of_line">>
      [] name \in {"WordRight"} -> <<"stop_highlight", "forward_word">>
      [] name \in {"WordLeft"} -> <<"stop_highlight", "backward_word">>
      [] name \in {"Right"} -> <<"stop_highlight", "forward_char">>
      [] name \in {"Left"} -> <<"stop_highlight", "backward_char">>
      [] name \in {"Home"} -> <<"begin_of_line">>
      [] name \in {"End"} -> <<"end_of_line">>
      [] name \in {"Backspace"} -> <<"backspace">>
      [] name \in {"Delete"} -> <<"delete">>
      [] name \in {"DeleteToWordEnd"} -> <<"kill_word">>
      [] name \in {"DeleteToWordBegin"} -> <<"back_kill_word">>
      [] name \in {"Mark"} -> <<"mark">>
      [] name \in {"Remove"} -> <<"remove">>
      [] name \in {"DeleteToEnd"} -> <<"delete_to_end">>
      [] name \in {"Clear"} -> <<"clear_all">>
      [] name \in {"Store", "ClipboardCopy"} -> <<"clipboard_copy">>
      [] name \in {"Cut", "ClipboardCut"} -> <<"clipboard_cut">>
      [] name \in {"Yank"} -> <<"yank">>
      [] name \in {"Paste", "ClipboardPaste"} -> <<"clipboard_paste">>
      [] name \in {"HistoryPrev"} -> <<"history_previous">>
      [] name \in {"HistoryNext"} -> <<"history_next">>
      [] name \in {"History"} -> <<"history_show">>
      [] name \in {"Complete"} -> <<"complete">>
      [] name \in {"EnterCtrlSeq"} -> <<"enter_ctrl_sequence">>
      [] OTHER -> <<>>

\* mc_keymap_process_group (lib/keymap): run the events bound to the key
RECURSIVE RunEvents(_, _, _)
RunEvents(s, evs, e) ==
    IF evs = <<>> THEN s
    ELSE RunEvents(RunEvent(s, evs[1], e), SubSeq(evs, 2, Len(evs)), e)

\* input_handle_char, for a key bound to nothing
input_handle_char_insert(s, key, e) ==
    IF key.code > 255 THEN s
    ELSE input_update(
             insert_char(
                 input_free_completions(
                     IF s.first THEN port_region_marked_for_delete(s) ELSE s),
                 key.code, e),
             TRUE)

\* input_handle_char, for a key the keymap handled
input_handle_char_handled(s) ==
    input_update(
        IF s.first
        THEN input_update(
                 [(IF ~s.is_complete_cmd THEN input_free_completions(s)
                   ELSE s) EXCEPT !.is_complete_cmd = FALSE], TRUE)
        ELSE [(IF ~s.is_complete_cmd THEN input_free_completions(s)
               ELSE s) EXCEPT !.is_complete_cmd = FALSE],
        TRUE)

\* input_handle_char, behind mc_keymap_process_group
input_handle_char_highlight(s, keymap_handled, key, e) ==
    IF ~keymap_handled
    THEN input_handle_char_insert(
             [s EXCEPT
                 !.highlight = IF ~s.is_highlight_cmd THEN FALSE
                               ELSE s.highlight,
                 !.is_highlight_cmd = FALSE], key, e)
    ELSE input_handle_char_handled(
             [s EXCEPT
                 !.highlight = IF ~s.is_highlight_cmd THEN FALSE
                               ELSE s.highlight,
                 !.is_highlight_cmd = FALSE])

\* input_handle_char.  A key is [name, code]: the name the keymap knows it
\* by ("" when it is bound to nothing) and its code.
input_handle_char(s, key, e) ==
    input_handle_char_highlight(RunEvents(s, KeyEvents(key.name), e),
                                KeyEvents(key.name) # <<>>, key, e)

\* input_event, from "a lone up mustn't do anything" on
input_event_mark(s, type) ==
    IF s.highlight /\ type \cap {"UP", "DRAG"} # {} THEN s
    ELSE IF "DRAG" \notin type THEN input_mark_cmd(s, TRUE)
    ELSE s

\* input_event, for a press or a drag: the history button or the cursor
input_event_point(s, type, x, e) ==
    IF type \cap {"DOWN", "DRAG"} # {}
    THEN input_update(
             IF x >= s.cols - HISTORY_BUTTON_WIDTH + 1
                /\ should_show_history_button(s)
             THEN mc_winput_cmd_history_show(s, e)
             ELSE [s EXCEPT !.point =
                      IF x + s.term_first_shown - 1
                           < str_term_width1(s.buffer)
                      THEN str_column_to_pos(s.buffer,
                                             x + s.term_first_shown - 1)
                      ELSE str_length(s.buffer)],
             TRUE)
    ELSE s

\* input_event: a mouse event inside the widget; type is the set of
\* GPM_DOWN, GPM_DRAG, GPM_UP bits, x the column local to the widget (from 1)
input_event(s, type, x, e) ==
    input_event_mark(
        input_event_point(
            IF "DOWN" \in type
            THEN input_mark_cmd([s EXCEPT !.first = FALSE], FALSE) ELSE s,
            type, x, e),
        type)

input_set_point(s, pos) ==
    LET max_pos == str_length(s.buffer)
        p == min(pos, max_pos)
        s1 == IF p # s.point THEN input_free_completions(s) ELSE s
    IN  input_update([s1 EXCEPT !.point = p, !.charbuf = <<>>], TRUE)

input_enable_update(s) ==
    input_update([s EXCEPT !.disable_update = s.disable_update - 1], FALSE)

input_disable_update(s) ==
    [s EXCEPT !.disable_update = s.disable_update + 1]

RECURSIVE input_handle_chars(_, _, _)
input_handle_chars(s, text, e) ==
    IF text = <<>> THEN s
    ELSE input_handle_chars(
             input_handle_char(s, [name |-> "", code |-> text[1]], e),
             SubSeq(text, 2, Len(text)), e)

input_insert(s, text, insert_extra_space, e) ==
    LET s1 == input_handle_chars(input_disable_update(s), text, e)
        s2 == IF insert_extra_space
              THEN input_handle_char(s1, [name |-> "", code |-> 32], e)
              ELSE s1
    IN  input_update(input_enable_update(s2), TRUE)

input_clean(s) ==
    LET s1 == [push_history(s, s.buffer) EXCEPT
                  !.need_push = TRUE, !.buffer = <<>>, !.point = 0,
                  !.charbuf = <<>>, !.mark = 0, !.highlight = FALSE]
    IN  input_update(input_free_completions(s1), FALSE)

\* "history_load" event handler; `list` is what history_load () returns
input_load_history(s, list) ==
    LET s1 == [s EXCEPT !.history = list, !.hist_current = Len(list)]
    IN  IF s1.init_from_history
        THEN input_assign_text(s1,
                 IF list # <<>> THEN list[Len(list)] ELSE <<>>)
        ELSE s1

\* input_new: the widget after construction, in no dialog yet
input_new(width, def_text, histname, last_text) ==
    LET s0 == [buffer |-> <<>>, point |-> 0, mark |-> 0,
               highlight |-> FALSE, charbuf |-> <<>>, first |-> TRUE,
               need_push |-> FALSE, is_highlight_cmd |-> FALSE,
               is_complete_cmd |-> FALSE, completions |-> FALSE,
               term_first_shown |-> 0, disable_update |-> 0,
               current_max_size |-> width + 1, cols |-> width,
               active |-> FALSE, is_password |-> FALSE,
               strip_password |-> FALSE, hist_name |-> histname,
               history |-> <<>>, hist_current |-> 0,
               hist_changed |-> FALSE, init_from_history |-> last_text,
               kill_buffer |-> <<>>]
    IN  input_assign_text(s0, IF last_text THEN <<>> ELSE def_text)
(***************************************************************************)
(* Spec: the widget from its construction on, under every key, mouse event *)
(* and call of the public functions (but input_set_point, which has a      *)
(* specification of its own below).                                        *)
(***************************************************************************)
\* the result of a handler becomes the next state
Becomes(s) ==
    /\ in' = WInputOf(s)
    /\ kill_buffer' = s.kill_buffer

\* the editing specification keeps the texts within its bounds
Step(s) ==
    \E t \in {s} :
        /\ str_length(t.buffer) <= MaxLen
        /\ t.disable_update \in DisableDepths
        /\ Len(t.history) \in HistLens
        /\ \A i \in 1..Len(t.history) :
               str_length(t.history[i]) \in PayloadLens
        /\ \A i \in 1..Len(t.kill_buffer) :
               str_length(t.kill_buffer[i]) \in PayloadLens
        /\ Becomes(t)
        /\ UNCHANGED <<op, pre, count>>

\* the width of the widget of the editing specification: the narrowest
\* that shows the history button
Widths == {2 * HISTORY_BUTTON_WIDTH + 2}

\* the bytes typed in the editing specification: ' ' and U+00E9
SpecBytes == {32, 195, 169}

\* the texts assigned and loaded in the editing specification
SpecTexts == {<<>>, <<32>>, <<195, 169>>}

Init ==
    /\ \E width \in Widths, def_text \in {<<>>, <<32>>} :
          LET s == input_new(width, def_text, TRUE, FALSE)
          IN  in = WInputOf(s) /\ kill_buffer = s.kill_buffer
    /\ op = "init"
    /\ pre = State
    /\ count = 0

Key(name) == [name |-> name, code |-> 0]

\* the stale bytes a handler may find behind the terminator, which it
\* reaches only with the mark beyond the text
Junk == IF in.mark > str_length(in.buffer) THEN {<<>>, <<32>>} ELSE {<<>>}

\* the entries history_show () may return
Shown == {<<>>} \cup {<<in.history[i]>> : i \in 1..Len(in.history)}

\* the columns clicked: the first ones, and the last, on the history button
MouseCols == {1, 2, MaxLen + 1, in.cols}

\* the dialog takes the widget in, loads its history and becomes active
DlgInit ==
    /\ ~in.active
    /\ \E list \in {<<>>, << <<195, 169>> >>} :
          Step([input_load_history(State, list) EXCEPT !.active = TRUE])

MoveKey ==
    /\ in.active
    /\ \E name \in {"Left", "Right", "WordLeft", "WordRight", "Home", "End"} :
        Step(input_handle_char(State, Key(name), Env0))

MarkKey ==
    /\ in.active
    /\ \E name \in {"MarkLeft", "MarkRight", "MarkToWordBegin",
                 "MarkToWordEnd", "MarkToHome", "MarkToEnd", "Mark"} :
        Step(input_handle_char(State, Key(name), Env0))

DeleteKey ==
    /\ in.active
    /\ \E name \in {"Backspace", "Delete", "DeleteToWordEnd",
                 "DeleteToWordBegin", "Remove", "DeleteToEnd", "Clear"},
       junk \in Junk :
        Step(input_handle_char(State, Key(name),
                 Env(TRUE, junk, 97, <<>>, <<>>, FALSE)))

ClipboardKey ==
    /\ in.active
    /\ \E name \in {"Store", "Cut", "Yank"}, junk \in Junk :
        Step(input_handle_char(State, Key(name),
                 Env(TRUE, junk, 97, <<>>, <<>>, FALSE)))

PasteKey ==
    /\ in.active
    /\ \E clip \in {<<>>, << <<32>> >>, << <<195, 169>> >>} :
        Step(input_handle_char(State, Key("Paste"),
                 Env(TRUE, <<>>, 97, clip, <<>>, FALSE)))

HistoryKey ==
    /\ in.active
    /\ \E name \in {"HistoryPrev", "HistoryNext"} :
        Step(input_handle_char(State, Key(name), Env0))

HistoryShowKey ==
    /\ in.active
    /\ \E show \in Shown :
        Step(input_handle_char(State, Key("History"),
                 Env(TRUE, <<>>, 97, <<>>, show, FALSE)))

\* (the completion generator finds no candidate here)
CompleteKey ==
    /\ in.active
    /\ \E comp \in {FALSE} :
        Step(input_handle_char(State, Key("Complete"),
                 Env(TRUE, <<>>, 97, <<>>, <<>>, comp)))

CtrlSeqKey ==
    /\ in.active
    /\ \E getch \in SpecBytes :
        Step(input_handle_char(State, Key("EnterCtrlSeq"),
                 Env(TRUE, <<>>, getch, <<>>, <<>>, FALSE)))

\* a key bound to nothing: a byte of a character, or a code above 255
CharKey ==
    /\ in.active
    /\ \E code \in SpecBytes \cup {300}, junk \in Junk :
        Step(input_handle_char(State, [name |-> "", code |-> code],
                 Env(TRUE, junk, 97, <<>>, <<>>, FALSE)))

Mouse ==
    /\ in.active
    /\ \E type \in {{"DOWN"}, {"DRAG"}, {"UP"}}, x \in MouseCols :
       \E show \in IF x = in.cols THEN Shown ELSE {<<>>} :
        Step(input_event(State, type, x,
                 Env(TRUE, <<>>, 97, <<>>, show, FALSE)))

AssignText ==
    \E text \in SpecTexts : Step(input_assign_text(State, text))

Clean == Step(input_clean(State))

DisableUpdate ==
    Step(input_disable_update(State))

EnableUpdate ==
    /\ in.disable_update > 0
    /\ Step(input_enable_update(State))

Next ==
    \/ DlgInit
    \/ MoveKey
    \/ MarkKey
    \/ DeleteKey
    \/ ClipboardKey
    \/ PasteKey
    \/ HistoryKey
    \/ HistoryShowKey
    \/ CompleteKey
    \/ CtrlSeqKey
    \/ CharKey
    \/ Mouse
    \/ AssignText
    \/ Clean
    \/ DisableUpdate
    \/ EnableUpdate

Spec == Init /\ [][Next]_vars
(***************************************************************************)
(* C1: in every state reachable from a freshly created widget by keys,     *)
(* character inserts, mouse events, input_assign_text and input_clean the  *)
(* cursor is a character offset of the buffer:                             *)
(* 0 <= point <= str_length (buffer).                                      *)
(***************************************************************************)
C1_PointInBuffer ==
    0 <= in.point /\ in.point <= str_length(in.buffer)

\* delete-to-end has cut the text at a cursor behind a character
C1_Witness ==
    /\ in.point = 1
    /\ str_length(in.buffer) = 1
    /\ kill_buffer = << <<32>> >>
    /\ in.history # <<>>

(***************************************************************************)
(* C3: after every operation, also one performed while redraws are         *)
(* disabled, the mark is a character offset of the buffer:                 *)
(* 0 <= mark <= str_length (buffer).                                       *)
(***************************************************************************)
C3_MarkInBuffer ==
    0 <= in.mark /\ in.mark <= str_length(in.buffer)

\* the same with redraws enabled in an active dialog, where input_update
\* adjusts the mark
C3_MarkInBufferWhenDrawn ==
    (in.active /\ in.disable_update = 0) => C3_MarkInBuffer

(***************************************************************************)
(* The single-operation specifications: the widget holds any text within   *)
(* the bound, the cursor and the mark anywhere in it, and one operation is *)
(* applied once.  op names the operation and pre keeps the state it found. *)
(***************************************************************************)
\* the width of a widget whose buffer must grow as text is typed
NarrowCols == 2

\* a widget of an active dialog after input_assign_text (buffer), cursor
\* motions and mark commands
Widget(width, buffer, point, mark, highlight, kill) ==
    [input_assign_text(
        [input_new(width, <<>>, TRUE, FALSE) EXCEPT
            !.active = TRUE, !.first = FALSE], buffer)
     EXCEPT !.point = point, !.mark = mark, !.highlight = highlight,
            !.kill_buffer = kill]

\* the widgets over a set of texts and a set of kill rings
Widgets(width, texts, kills) ==
    UNION {{Widget(width, b, p, m, h, k) :
              p \in 0..str_length(b), m \in 0..str_length(b),
              h \in BOOLEAN, k \in kills} : b \in texts}

Starts(s) ==
    /\ in = WInputOf(s)
    /\ kill_buffer = s.kill_buffer
    /\ op = "init"
    /\ pre = s
    /\ count = 0

\* one operation, applied to the initial state
Shot(name, s) ==
    /\ op = "init"
    /\ \E t \in {s} : Becomes(t)
    /\ op' = name
    /\ pre' = State
    /\ count' = count

(***************************************************************************)
(* SpecEdit: input_set_point, the removal of the region between cursor and *)
(* mark, the word motions and the word deletions.                          *)
(***************************************************************************)
\* a widget wide enough for the texts of the model
EditCols == 2 * HISTORY_BUTTON_WIDTH + 2

InitEdit ==
    \E s \in Widgets(EditCols, Texts(MaxText), {<<>>}) : Starts(s)

SetPoint ==
    \E pos \in -2..(MaxText + 2) :
        Shot("input_set_point", input_set_point(State, pos))

Remove == Shot("remove", mc_winput_cmd_remove(State, Env0))

BackwardWord == Shot("backward_word", mc_winput_cmd_backward_word(State))

ForwardWord == Shot("forward_word", mc_winput_cmd_forward_word(State))

KillWord == Shot("kill_word", mc_winput_cmd_kill_word(State, Env0))

BackKillWord ==
    Shot("back_kill_word", mc_winput_cmd_back_kill_word(State, Env0))

NextEdit ==
    \/ SetPoint
    \/ Remove
    \/ BackwardWord
    \/ ForwardWord
    \/ KillWord
    \/ BackKillWord

SpecEdit == InitEdit /\ [][NextEdit]_vars

(***************************************************************************)
(* SpecYank: yank and a typed character, over every kill ring.             *)
(***************************************************************************)
\* kill_buffer: NULL, or a text cut from a buffer
KillRings(n) ==
    {<<>>} \cup {<<k>> : k \in TextsOver({<<97>>, <<195, 169>>}, n)}

InitYank ==
    \E s \in Widgets(NarrowCols, Texts(MaxKill), KillRings(MaxKill)) : Starts(s)

Yank == Shot("yank", mc_winput_cmd_yank(State, Env0))

YankKey == Shot("Yank", input_handle_char(State, Key("Yank"), Env0))

TypedKey ==
    \E code \in {32, 97} :
        Shot("char", input_handle_char(State, [name |-> "", code |-> code],
                                       Env0))

NextYank ==
    \/ Yank
    \/ YankKey
    \/ TypedKey

SpecYank == InitYank /\ [][NextYank]_vars

(***************************************************************************)
(* SpecType: bytes fed one at a time to insert_char, from an empty buffer. *)
(***************************************************************************)
\* the ints handed to insert_char: the bytes of the model as a key code
\* and as a (signed) char, and the code of no key
Codes == Bytes \cup {FromChar(b) : b \in Bytes} \cup {-1}

InitType == Starts(Widget(NarrowCols, <<>>, 0, 0, FALSE, <<>>))

\* whether insert_char's call of str_is_valid_char reports a complete character
Completes(s, c_code) ==
    /\ c_code # -1
    /\ Len(s.charbuf) < MB_LEN_MAX
    /\ str_is_valid_char(Append(s.charbuf, ToByte(c_code))) = 1

TypeByte ==
    \E c_code \in Codes :
        \E t \in {insert_char(State, c_code, Env0)} :
            /\ str_length(t.buffer) <= MaxText
            /\ Becomes(t)
            /\ count' = IF Completes(State, c_code) THEN count + 1 ELSE count
            /\ op' = "insert_char"
            /\ pre' = pre

NextType == TypeByte

SpecType == InitType /\ [][NextType]_vars

(***************************************************************************)
(* What the operations are to do, said on the characters of a text.        *)
(***************************************************************************)
\* the characters of a text, each the bytes that encode it
RECURSIVE Chars(_)
Chars(text) ==
    IF text = <<>> THEN <<>>
    ELSE LET k == str_cnext_char(text, 0)
         IN  <<BytesBefore(text, k)>> \o Chars(BytesFrom(text, k))

\* the text of a sequence of characters
RECURSIVE Flat(_)
Flat(cs) == IF cs = <<>> THEN <<>> ELSE cs[1] \o Flat(Tail(cs))

\* the text without its characters at the offsets in [lo, hi), and with
\* the text `ins` in their place
Replaced(text, lo, hi, ins) ==
    LET cs == Chars(text)
    IN  Flat(SubSeq(cs, 1, lo)) \o ins \o Flat(SubSeq(cs, hi + 1, Len(cs)))

\* whitespace or punctuation
IsSeparator(c) == c \in {<<32>>, <<46>>}

\* the offset reached from p leftwards (rightwards) over the characters
\* that are separators (sep) or are none (~sep)
RECURSIVE SkipLeft(_, _, _)
SkipLeft(cs, p, sep) ==
    IF p > 0 /\ IsSeparator(cs[p]) = sep THEN SkipLeft(cs, p - 1, sep) ELSE p

RECURSIVE SkipRight(_, _, _)
SkipRight(cs, p, sep) ==
    IF p < Len(cs) /\ IsSeparator(cs[p + 1]) = sep
    THEN SkipRight(cs, p + 1, sep) ELSE p

\* separators first, then the word
BackwardWordTarget(text, p) ==
    SkipLeft(Chars(text), SkipLeft(Chars(text), p, TRUE), FALSE)

ForwardWordTarget(text, p) ==
    SkipRight(Chars(text), SkipRight(Chars(text), p, TRUE), FALSE)

\* a widget holding `text` with the cursor at `point`, the mark at `mark`
Holding(text, point, mark, kill) ==
    Widget(EditCols, text, point, mark, FALSE, kill)

(***************************************************************************)
(* C2: after input_set_point (in, pos), for every integer pos, negative    *)
(* ones and ones beyond the text included, 0 <= point <= str_length.       *)
(***************************************************************************)
C2_SetPointInBuffer ==
    op = "input_set_point" =>
        0 <= in.point /\ in.point <= str_length(in.buffer)

(***************************************************************************)
(* C4: from an empty buffer without selection, after any bytes fed one by  *)
(* one to insert_char, the length of the buffer in characters and the      *)
(* point both equal the number of characters str_is_valid_char has         *)
(* reported complete.                                                      *)
(***************************************************************************)
C4_LengthIsCompleted ==
    str_length(in.buffer) = count /\ in.point = count

\* U+00E9 and 'a' have been typed, and the buffer has grown for them
C4_Witness ==
    /\ op = "insert_char"
    /\ count = 2
    /\ in.buffer = <<195, 169, 97>>
    /\ in.current_max_size > NarrowCols + 1

(***************************************************************************)
(* C5: a plain character typed (a key bound to no command, handled by      *)
(* input_handle_char) while a non-empty selection is active replaces the   *)
(* selection: the selected characters are removed and the character stands *)
(* where the selection began, the cursor behind it.                        *)
(***************************************************************************)
C5_TypedCharReplacesSelection ==
    (op = "char" /\ pre.highlight /\ pre.mark # pre.point) =>
        \E c \in {<<32>>, <<97>>} :
            /\ in.buffer = Replaced(pre.buffer, min(pre.mark, pre.point),
                                    max(pre.mark, pre.point), c)
            /\ in.point = min(pre.mark, pre.point) + 1

(***************************************************************************)
(* C6: delete_region (a, b), for offsets a, b within the text, removes     *)
(* exactly the characters at [min (a, b), max (a, b)), keeps the others in *)
(* order, clears highlight and puts point at min (a, b); "abcdef" with     *)
(* mark 2 and point 5 becomes "abf" with point 2.                          *)
(***************************************************************************)
ScenarioD ==
    LET s == delete_region(Holding(<<97, 98, 99, 100, 101, 102>>, 5, 2, <<>>),
                           5, 2, <<>>)
    IN  s.buffer = <<97, 98, 102>> /\ s.point = 2 /\ ~s.highlight

C6_DeleteRegion ==
    /\ ScenarioD
    /\ op = "remove" =>
         /\ in.buffer = Replaced(pre.buffer, min(pre.point, pre.mark),
                                 max(pre.point, pre.mark), <<>>)
         /\ ~in.highlight
         /\ in.point = min(pre.point, pre.mark)

\* U+00E9 has been cut out of the middle of a highlighted text
C6_Witness ==
    /\ op = "remove"
    /\ pre.highlight
    /\ pre.buffer = <<97, 195, 169, 46>>
    /\ pre.mark = 1
    /\ pre.point = 2
    /\ in.buffer = <<97, 46>>

(***************************************************************************)
(* C7: the backward-word motion puts point where a scan from point to the  *)
(* left ends that skips the separators before the cursor and then the word *)
(* characters, up to a separator or the start of the text; also at the end *)
(* of a text whose last word is one character ("a b": 3 to 2); "hello"     *)
(* with U+00E9 for its e goes from 5 to 0.                                 *)
(***************************************************************************)
ScenarioA ==
    mc_winput_cmd_backward_word(
        Holding(<<104, 195, 169, 108, 108, 111>>, 5, 0, <<>>)).point = 0

C7_BackwardWord ==
    /\ ScenarioA
    /\ op = "backward_word" =>
         /\ in.point = BackwardWordTarget(pre.buffer, pre.point)
         /\ in.buffer = pre.buffer

\* the same, away from the end of the text
C7_BackwardWordInside ==
    (op = "backward_word" /\ pre.point < str_length(pre.buffer)) =>
        in.point = BackwardWordTarget(pre.buffer, pre.point)

(***************************************************************************)
(* C8: the forward-word motion puts point where a scan from point to the   *)
(* right ends that skips the separators and then the word characters, up   *)
(* to a separator or the end of the text; the buffer is unchanged and      *)
(* point <= str_length (buffer).                                           *)
(***************************************************************************)
C8_ForwardWord ==
    op = "forward_word" =>
        /\ in.point = ForwardWordTarget(pre.buffer, pre.point)
        /\ in.buffer = pre.buffer
        /\ in.point <= str_length(in.buffer)

\* a separator and the word U+00E9 were skipped, up to the next separator
C8_Witness ==
    /\ op = "forward_word"
    /\ pre.buffer = <<46, 195, 169, 32>>
    /\ pre.point = 0
    /\ in.point = 2

(***************************************************************************)
(* C9: delete-word-backward is the backward-word motion followed by        *)
(* delete_region between the old and the new point: the characters from    *)
(* the motion's target to the old point are removed and point is the       *)
(* target ("foo bar" with point 7 becomes "foo " with point 4);            *)
(* delete-word-forward removes the characters from point to the target of  *)
(* the forward-word motion and leaves point alone.                         *)
(***************************************************************************)
ScenarioB ==
    LET s == mc_winput_cmd_back_kill_word(
                 Holding(<<102, 111, 111, 32, 98, 97, 114>>, 7, 0, <<>>), Env0)
    IN  s.buffer = <<102, 111, 111, 32>> /\ s.point = 4

C9_KillWord ==
    /\ ScenarioB
    /\ op = "back_kill_word" =>
         LET target == mc_winput_cmd_backward_word(pre).point
         IN  /\ target <= pre.point
             /\ in.buffer = Replaced(pre.buffer, target, pre.point, <<>>)
             /\ in.point = target
    /\ op = "kill_word" =>
         LET target == mc_winput_cmd_forward_word(pre).point
         IN  /\ pre.point <= target
             /\ target = ForwardWordTarget(pre.buffer, pre.point)
             /\ in.buffer = Replaced(pre.buffer, pre.point, target, <<>>)
             /\ in.point = pre.point

\* the separator and the word U+00E9 before the cursor were removed
C9_Witness ==
    /\ op = "back_kill_word"
    /\ pre.buffer = <<32, 195, 169, 46>>
    /\ pre.point = 3
    /\ in.buffer = <<32>>
    /\ in.point = 1

\* a word was removed behind the cursor
C9_WitnessForward ==
    /\ op = "kill_word"
    /\ pre.buffer = <<97, 32, 195, 169>>
    /\ pre.point = 1
    /\ in.buffer = <<97>>
    /\ in.point = 1

(***************************************************************************)
(* C10: yank removes an active selection, inserts the payload of the kill  *)
(* ring as it is where the cursor then is, and advances point by the       *)
(* payload's length in characters; the kill ring stays as it was, and with *)
(* an empty kill ring nothing changes.  "xyz" yanked into "ab" at point 1  *)
(* gives "axyzb" with point 4.                                             *)
(***************************************************************************)
ScenarioE ==
    LET s == mc_winput_cmd_yank(
                 Holding(<<97, 98>>, 1, 0, << <<120, 121, 122>> >>), Env0)
    IN  /\ s.buffer = <<97, 120, 121, 122, 98>>
        /\ s.point = 4
        /\ s.kill_buffer = << <<120, 121, 122>> >>

C10_Yank ==
    /\ ScenarioE
    /\ op = "yank" =>
         /\ kill_buffer = pre.kill_buffer
         /\ IF pre.kill_buffer \in {<<>>, << <<>> >>}
            THEN in = WInputOf(pre)
            ELSE LET lo == IF pre.highlight THEN min(pre.mark, pre.point)
                           ELSE pre.point
                     hi == IF pre.highlight THEN max(pre.mark, pre.point)
                           ELSE pre.point
                 IN  /\ in.buffer = Replaced(pre.buffer, lo, hi,
                                             pre.kill_buffer[1])
                     /\ in.point = lo + str_length(pre.kill_buffer[1])
                     /\ ~in.highlight

\* "a" and U+00E9 were yanked over a selection, and the buffer grew
C10_Witness ==
    /\ op = "yank"
    /\ pre.highlight
    /\ pre.buffer = <<32, 46>>
    /\ pre.mark = 2
    /\ pre.point = 1
    /\ pre.kill_buffer = << <<97, 195, 169>> >>
    /\ in.buffer = <<32, 97, 195, 169>>
    /\ in.point = 3
    /\ in.current_max_size > pre.current_max_size

(***************************************************************************)
(* SpecKill: the kill ring.  The widget `in` cuts to the end of the line   *)
(* or copies its selection, and yanks; beside it live `count` other        *)
(* widgets of the same process, one of which may be destroyed.             *)
(***************************************************************************)
\* the most other widgets alive beside `in`
MaxOthers == 2

\* input_destroy: the widget's own data are freed, and the global kill ring
input_destroy(s) ==
    [input_free_completions(s) EXCEPT
        !.history = <<>>, !.hist_current = 0, !.hist_name = FALSE,
        !.buffer = <<>>, !.kill_buffer = <<>>]

\* a widget beside `in`: as input_new leaves it, sharing the kill ring
Other == [input_new(EditCols, <<>>, TRUE, FALSE) EXCEPT
             !.kill_buffer = kill_buffer]

InitKill ==
    /\ \E s \in Widgets(EditCols, Texts(MaxKill), {<<>>, << <<97>> >>}) :
          in = WInputOf(s) /\ kill_buffer = s.kill_buffer /\ pre = s
    /\ op = "init"
    /\ count \in 1..MaxOthers

\* the handler itself, and the key bound to it
DeleteToEnd == Shot("delete_to_end", mc_winput_cmd_delete_to_end(State))

DeleteToEndKey ==
    Shot("DeleteToEnd", input_handle_char(State, Key("DeleteToEnd"), Env0))

StoreKey == Shot("Store", input_handle_char(State, Key("Store"), Env0))

\* the yank that follows at once, whether or not g_try_renew finds memory
YankBack ==
    /\ op = "delete_to_end"
    /\ \E alloc \in BOOLEAN :
          Becomes(mc_winput_cmd_yank(State,
                      Env(alloc, <<>>, 97, <<>>, <<>>, FALSE)))
    /\ op' = "delete_to_end,yank"
    /\ UNCHANGED <<pre, count>>

YankKeyBack ==
    /\ op = "DeleteToEnd"
    /\ \E alloc \in BOOLEAN :
          Becomes(input_handle_char(State, Key("Yank"),
                      Env(alloc, <<>>, 97, <<>>, <<>>, FALSE)))
    /\ op' = "DeleteToEnd,Yank"
    /\ UNCHANGED <<pre, count>>

\* one of the other widgets is destroyed after `in` has written the kill ring
DestroyOther ==
    /\ op \in {"DeleteToEnd", "Store"}
    /\ count > 0
    /\ kill_buffer' = input_destroy(Other).kill_buffer
    /\ count' = count - 1
    /\ op' = "input_destroy"
    /\ pre' = State
    /\ in' = in

YankAfterDestroy ==
    /\ op = "input_destroy"
    /\ Becomes(input_handle_char(State, Key("Yank"), Env0))
    /\ op' = "input_destroy,Yank"
    /\ UNCHANGED <<pre, count>>

NextKill ==
    \/ DeleteToEnd
    \/ DeleteToEndKey
    \/ StoreKey
    \/ YankBack
    \/ YankKeyBack
    \/ DestroyOther
    \/ YankAfterDestroy

SpecKill == InitKill /\ [][NextKill]_vars

(***************************************************************************)
(* C11: delete-to-end-of-line at point p stores the text from p to the end *)
(* in the kill ring, cuts the buffer down to its first p characters and    *)
(* leaves point at p; a yank that follows at once brings the buffer back   *)
(* to what it was, with point at the end of the text.  (Between the two    *)
(* handlers called bare, without input_handle_char, a selection left       *)
(* active would be removed by the yank: there the statement is about the   *)
(* states without one.)                                                    *)
(***************************************************************************)
C11_DeleteToEndYank ==
    /\ op \in {"delete_to_end", "DeleteToEnd"} =>
         /\ kill_buffer = <<Flat(SubSeq(Chars(pre.buffer), pre.point + 1,
                                        Len(Chars(pre.buffer))))>>
         /\ in.buffer = Flat(SubSeq(Chars(pre.buffer), 1, pre.point))
         /\ in.point = pre.point
    /\ op = "DeleteToEnd,Yank" =>
         /\ in.buffer = pre.buffer
         /\ in.point = str_length(pre.buffer)
    /\ (op = "delete_to_end,yank" /\ (~pre.highlight \/ pre.mark = pre.point))
         => /\ in.buffer = pre.buffer
            /\ in.point = str_length(pre.buffer)

\* U+00E9 and '.' were cut behind 'a' while a selection was shown, and
\* yanked back
C11_Witness ==
    /\ op = "DeleteToEnd,Yank"
    /\ pre.buffer = <<97, 195, 169>>
    /\ pre.point = 1
    /\ pre.highlight
    /\ pre.mark = 0
    /\ kill_buffer = << <<195, 169>> >>
    /\ in.buffer = <<97, 195, 169>>
    /\ in.point = 2

(***************************************************************************)
(* C12: a payload one widget has written to the kill ring stays there for  *)
(* the other widgets until the next write or the end of the process: the   *)
(* destruction of one widget, others remaining, does not empty the kill    *)
(* ring.                                                                   *)
(***************************************************************************)
C12_KillRingOutlivesWidget ==
    op = "input_destroy" => kill_buffer = pre.kill_buffer

(***************************************************************************)
(* SpecHist: the history.  The dialog loads the history of the widget; the *)
(* user types, steps through the history, and the buffer is pushed; in the *)
(* end the dialog saves the history.  op names the last operation, pre     *)
(* keeps the state it found, count counts the calls of history_save ().    *)
(***************************************************************************)
\* the longest history list
MaxHist == 2
\* the lengths of the buffer, in characters
HistTextLens == {0, 1, 2}

\* what history_load () returns: it builds the list with
\* list_append_unique, so that no two entries are equal
Histories(n) ==
    {h \in UNION {[1..k -> {<<>>, <<97>>, <<195, 169>>}] : k \in 0..n} :
        \A i \in 1..Len(h) : \A j \in 1..Len(h) : h[i] = h[j] => i = j}

\* a faulty variant: the history of a cancelled dialog is saved as well
input_save_history_cancelled(s, cancelled) ==
    IF ~s.is_password
    THEN [push_history(s, s.buffer) EXCEPT !.hist_changed = FALSE]
    ELSE s

\* "history_save" event handler; cancelled: the dialog's ret_value is B_CANCEL
input_save_history(s, cancelled) ==
    IF ~s.is_password /\ ~cancelled
    THEN [push_history(s, s.buffer) EXCEPT !.hist_changed = FALSE]
    ELSE s

\* the calls of history_save () the handler makes
history_save_calls(s, cancelled) ==
    IF ~s.is_password /\ ~cancelled /\ push_history(s, s.buffer).hist_changed
    THEN 1 ELSE 0

InitHist ==
    /\ \E def_text \in {<<>>, <<97>>}, password \in BOOLEAN :
          \E s \in {[input_new(EditCols, def_text, TRUE, FALSE) EXCEPT
                        !.is_password = password]} :
              in = WInputOf(s) /\ kill_buffer = s.kill_buffer
    /\ op = "init"
    /\ pre = State
    /\ count = 0

\* an operation of the history specification, within its bounds, before
\* the history is saved
Did(name, s) ==
    /\ op \notin {"input_save_history", "input_save_history (cancelled)"}
    /\ \E t \in {s} :
          /\ Len(t.history) <= MaxHist
          /\ str_length(t.buffer) \in HistTextLens
          /\ Becomes(t)
    /\ op' = name
    /\ pre' = State

HistLoad ==
    /\ ~in.active
    /\ \E list \in Histories(MaxHist) :
          Did("input_load_history",
              [input_load_history(State, list) EXCEPT !.active = TRUE])
    /\ count' = count

HistChar ==
    /\ in.active
    /\ \E code \in {32, 97} :
          Did("char", input_handle_char(State, [name |-> "", code |-> code],
                                        Env0))
    /\ count' = count

HistBackspace ==
    /\ in.active
    /\ Did("Backspace", input_handle_char(State, Key("Backspace"), Env0))
    /\ count' = count

HistPush ==
    /\ Did("push_history", push_history(State, in.buffer))
    /\ count' = count

HistPrev ==
    /\ in.active
    /\ Did("HistoryPrev", input_handle_char(State, Key("HistoryPrev"), Env0))
    /\ count' = count

HistNext ==
    /\ in.active
    /\ Did("HistoryNext", input_handle_char(State, Key("HistoryNext"), Env0))
    /\ count' = count

\* history-previous and, right behind it, history-next
HistPrevNext ==
    /\ in.active
    /\ Did("HistoryPrev,HistoryNext",
           input_handle_char(
               input_handle_char(State, Key("HistoryPrev"), Env0),
               Key("HistoryNext"), Env0))
    /\ count' = count

HistSave ==
    /\ in.active
    /\ \E cancelled \in BOOLEAN :
          /\ Did(IF cancelled THEN "input_save_history (cancelled)"
                 ELSE "input_save_history",
                 input_save_history(State, cancelled))
          /\ count' = count + history_save_calls(State, cancelled)

NextHist ==
    \/ HistLoad
    \/ HistChar
    \/ HistBackspace
    \/ HistPush
    \/ HistPrev
    \/ HistNext
    \/ HistPrevNext
    \/ HistSave

SpecHist == InitHist /\ [][NextHist]_vars

\* the text push_history stores for a text, password stripping aside: a
\* text of nothing but whitespace is stored as "", any other as it is
Stored(text) == IF \A i \in 1..Len(text) : text[i] = 32 THEN <<>> ELSE text

\* the newest entry of a history (none: <<>>; the entry e: <<e>>)
Newest(h) == IF h = <<>> THEN <<>> ELSE <<h[Len(h)]>>

(***************************************************************************)
(* C13: push_history (text) adds nothing when the text (as it is stored)   *)
(* equals the newest entry and the history is not marked changed; in every *)
(* other case the text becomes the newest entry, current is that entry and *)
(* the history is marked changed.  In both cases need_push is cleared.  A  *)
(* text of nothing but whitespace is stored as "", any other untrimmed.    *)
(***************************************************************************)
C13_PushHistory ==
    op = "push_history" =>
        /\ ~in.need_push
        /\ IF Newest(pre.history) = <<Stored(pre.buffer)>>
              /\ ~pre.hist_changed
           THEN /\ in.history = pre.history
                /\ in.hist_current = pre.hist_current
                /\ in.hist_changed = pre.hist_changed
           ELSE /\ Newest(in.history) = <<Stored(pre.buffer)>>
                /\ in.hist_current = Len(in.history)
                /\ in.hist_changed

\* " " was pushed behind "a" and stored as ""
C13_Witness ==
    /\ op = "push_history"
    /\ pre.buffer = <<32>>
    /\ pre.history = << <<97>> >>
    /\ in.history = << <<97>>, <<>> >>
    /\ in.hist_current = 2
    /\ in.hist_changed

\* the newest entry was pushed again and nothing was added
C13_WitnessSame ==
    /\ op = "push_history"
    /\ pre.buffer = <<97>>
    /\ pre.need_push
    /\ ~pre.hist_changed
    /\ pre.history = << <<195, 169>>, <<97>> >>
    /\ in.history = pre.history
    /\ ~in.hist_changed

(***************************************************************************)
(* C14: after any loads, pushes, history-previous and history-next         *)
(* commands and edits no entry of the history equals the entry before it,  *)
(* also when the same text is pushed twice while the history is marked     *)
(* changed.                                                                *)
(***************************************************************************)
C14_NoRepeatedEntry ==
    \A i \in 2..Len(in.history) : in.history[i] # in.history[i - 1]

\* the newest entry was pushed again while the history was marked changed
C14_Witness ==
    /\ op = "push_history"
    /\ pre.hist_changed
    /\ Len(pre.history) = 2
    /\ Newest(pre.history) = <<pre.buffer>>
    /\ in.history = pre.history

(***************************************************************************)
(* C17: with no history list both history-previous and history-next do     *)
(* nothing: buffer, point, history list, current and the changed flag stay *)
(* as they were, whatever need_push is.                                    *)
(***************************************************************************)
C17_NoHistoryNoOp ==
    (op \in {"HistoryPrev", "HistoryNext"} /\ pre.history = <<>>) =>
        /\ in.buffer = pre.buffer
        /\ in.point = pre.point
        /\ in.history = pre.history
        /\ in.hist_current = pre.hist_current
        /\ in.hist_changed = pre.hist_changed

\* the same of history-previous alone, and of history-next with no edit
\* pending
C17_NoHistoryNoOpUnlessPending ==
    (pre.history = <<>>
       /\ (op = "HistoryPrev" \/ (op = "HistoryNext" /\ ~pre.need_push))) =>
        /\ in.buffer = pre.buffer
        /\ in.point = pre.point
        /\ in.history = pre.history
        /\ in.hist_current = pre.hist_current
        /\ in.hist_changed = pre.hist_changed

(***************************************************************************)
(* C18: history-previous with an edit pending (need_push), a history that  *)
(* is not empty and a buffer whose text (as push_history stores it) is not *)
(* the newest entry pushes the buffer as the new newest entry and then     *)
(* assigns the entry that was the newest before; history-next with an edit *)
(* pending pushes the buffer and assigns the empty text, without stepping  *)
(* to another entry.                                                       *)
(***************************************************************************)
C18_PendingEditPushed ==
    /\ (op = "HistoryPrev" /\ pre.need_push /\ pre.history # <<>>
          /\ Newest(pre.history) # <<Stored(pre.buffer)>>) =>
         /\ Newest(in.history) = <<Stored(pre.buffer)>>
         /\ <<in.buffer>> = Newest(pre.history)
         /\ in.hist_current = Len(in.history) - 1
         /\ in.history[in.hist_current] = in.buffer
    /\ (op = "HistoryNext" /\ pre.need_push) =>
         /\ Newest(in.history) = <<Stored(pre.buffer)>>
         /\ in.buffer = <<>>
         /\ in.point = 0
         /\ in.hist_current =
              IF Newest(pre.history) = <<Stored(pre.buffer)>>
                 /\ ~pre.hist_changed
              THEN pre.hist_current ELSE Len(in.history)

\* " a" was typed over the history ("a"): history-previous stored " a" and
\* brought "a" back
C18_Witness ==
    /\ op = "HistoryPrev"
    /\ pre.need_push
    /\ pre.buffer = <<32, 97>>
    /\ pre.history = << <<97>> >>
    /\ in.history = << <<97>>, <<32, 97>> >>
    /\ in.buffer = <<97>>
    /\ in.hist_current = 1

\* history-next stored the pending "a" in an empty history and cleared the
\* buffer
C18_WitnessNext ==
    /\ op = "HistoryNext"
    /\ pre.need_push
    /\ pre.buffer = <<97>>
    /\ pre.history = <<>>
    /\ in.history = << <<97>> >>
    /\ in.buffer = <<>>

(***************************************************************************)
(* C19: history-next with no edit pending and current at the newest entry  *)
(* assigns the empty text and leaves current at the newest entry and the   *)
(* list as it was; history-previous (no edit pending) with current at the  *)
(* oldest entry leaves buffer and current as they were.                    *)
(***************************************************************************)
C19_AtTheEnds ==
    /\ (op = "HistoryNext" /\ ~pre.need_push /\ pre.history # <<>>
          /\ pre.hist_current = Len(pre.history)) =>
         /\ in.buffer = <<>>
         /\ in.hist_current = Len(in.history)
         /\ in.history = pre.history
    /\ (op = "HistoryPrev" /\ ~pre.need_push /\ pre.history # <<>>
          /\ pre.hist_current = 1) =>
         /\ in.buffer = pre.buffer
         /\ in.hist_current = pre.hist_current
         /\ in.history = pre.history

\* history-next behind the newest of two entries
C19_Witness ==
    /\ op = "HistoryNext"
    /\ ~pre.need_push
    /\ pre.buffer = <<97>>
    /\ pre.history = << <<195, 169>>, <<97>> >>
    /\ pre.hist_current = 2
    /\ in.buffer = <<>>
    /\ in.hist_current = 2

\* history-previous at the oldest of two entries
C19_WitnessOldest ==
    /\ op = "HistoryPrev"
    /\ ~pre.need_push
    /\ Len(pre.history) = 2
    /\ pre.hist_current = 1
    /\ pre.buffer = pre.history[1]
    /\ in.buffer = pre.buffer
    /\ in.hist_current = 1

(***************************************************************************)
(* C20: the history-save handler calls the store only for a widget that is *)
(* no password field in a dialog that was not cancelled, and then only if  *)
(* the history is marked changed once the buffer is pushed; for a password *)
(* field or a cancelled dialog the store is not called, the buffer is not  *)
(* pushed, and list and changed flag stay as they were.  After a save that *)
(* ran the changed flag is false.                                          *)
(***************************************************************************)
C20_SaveHistory ==
    /\ ((op = "input_save_history" /\ pre.is_password)
          \/ op = "input_save_history (cancelled)") =>
         /\ count = 0
         /\ in = WInputOf(pre)
    /\ (op = "input_save_history" /\ ~pre.is_password) =>
         /\ count = (IF pre.hist_changed
                        \/ Newest(pre.history) # <<Stored(pre.buffer)>>
                     THEN 1 ELSE 0)
         /\ Newest(in.history) = <<Stored(pre.buffer)>>
         /\ ~in.hist_changed
    /\ count > 0 => op = "input_save_history" /\ ~in.hist_changed

\* the typed " a" was pushed behind "a" and the list handed to the store
C20_Witness ==
    /\ op = "input_save_history"
    /\ count = 1
    /\ ~pre.hist_changed
    /\ pre.buffer = <<32, 97>>
    /\ pre.history = << <<97>> >>
    /\ in.history = << <<97>>, <<32, 97>> >>
    /\ ~in.hist_changed

\* the dialog of a changed history was cancelled
C20_WitnessCancelled ==
    /\ op = "input_save_history (cancelled)"
    /\ ~pre.is_password
    /\ pre.hist_changed
    /\ in.hist_changed
    /\ count = 0

(***************************************************************************)
(* SpecStrip: a text over 'a', ':', '@' and '/' is pushed to the history   *)
(* of a widget, with and without a history name and password stripping.    *)
(***************************************************************************)
\* the longest text pushed, in characters
MaxUrl == 5

InitStrip ==
    \E url \in TextsOver({<<97>>, <<58>>, <<64>>, <<47>>}, MaxUrl),
       named \in BOOLEAN, strip \in BOOLEAN :
        Starts([Widget(EditCols, url, Len(url), 0, FALSE, <<>>) EXCEPT
                   !.hist_name = named, !.strip_password = strip])

PushUrl == Shot("push_history (url)", push_history(State, in.buffer))

NextStrip == PushUrl

SpecStrip == InitStrip /\ [][NextStrip]_vars

\* the position of the last '@' of a text (0: none)
LastAt(url) ==
    IF \A i \in 1..Len(url) : url[i] # 64 THEN 0
    ELSE CHOOSE i \in 1..Len(url) :
             url[i] = 64 /\ \A j \in (i + 1)..Len(url) : url[j] # 64

\* the positions of the colons before the last '@'
ColonsBefore(url) == {i \in 1..(LastAt(url) - 1) : url[i] = 58}

\* the text holds the VFS prefix delimiter "://"
HasVfsDelimiter(url) ==
    \E i \in 1..(Len(url) - 2) :
        url[i] = 58 /\ url[i + 1] = 47 /\ url[i + 2] = 47

\* the text without its characters from the colon at c up to the last '@'
WithoutPassword(url, c) ==
    SubSeq(url, 1, c - 1) \o SubSeq(url, LastAt(url), Len(url))

(***************************************************************************)
(* C15: with password stripping enabled on a widget that has a history     *)
(* name, a pushed text user:password@rest (one colon before the last '@',  *)
(* no VFS prefix delimiter) is stored as user@rest; a text without '@', or *)
(* with no colon before the last '@' (user@host:port), is stored as it is. *)
(* "admin:secret@host/path" is stored as "admin@host/path".                *)
(***************************************************************************)
ScenarioC ==
    push_history(
        [Holding(<<>>, 0, 0, <<>>) EXCEPT !.strip_password = TRUE],
        <<97, 100, 109, 105, 110, 58, 115, 101, 99, 114, 101, 116, 64,
          104, 111, 115, 116, 47, 112, 97, 116, 104>>).history
      = << <<97, 100, 109, 105, 110, 64, 104, 111, 115, 116, 47, 112, 97,
             116, 104>> >>

C15_PasswordStripped ==
    /\ ScenarioC
    /\ (op = "push_history (url)" /\ pre.strip_password /\ pre.hist_name
          /\ ~HasVfsDelimiter(pre.buffer)) =>
         /\ Cardinality(ColonsBefore(pre.buffer)) = 1 =>
              \A c \in ColonsBefore(pre.buffer) :
                  in.history = <<WithoutPassword(pre.buffer, c)>>
         /\ ColonsBefore(pre.buffer) = {} => in.history = <<pre.buffer>>

\* the password "a@" went, the port behind the last '@' stayed
C15_Witness ==
    /\ op = "push_history (url)"
    /\ pre.strip_password
    /\ pre.hist_name
    /\ pre.buffer = <<58, 97, 64, 64, 58>>
    /\ in.history = << <<64, 58>> >>

\* user@host:port was stored as it is
C15_WitnessPort ==
    /\ op = "push_history (url)"
    /\ pre.strip_password
    /\ pre.hist_name
    /\ pre.buffer = <<97, 64, 97, 58, 97>>
    /\ in.history = << <<97, 64, 97, 58, 97>> >>

(***************************************************************************)
(* C16: of several colons before the last '@' the one nearest to the '@'   *)
(* separates the password: only the characters from that colon up to the   *)
(* '@' are dropped, and what stands before it is kept ("a:b:c@host"        *)
(* becomes "a:b@host").                                                    *)
(***************************************************************************)
C16_NearestColon ==
    (op = "push_history (url)" /\ pre.strip_password /\ pre.hist_name
       /\ ~HasVfsDelimiter(pre.buffer)
       /\ Cardinality(ColonsBefore(pre.buffer)) > 1) =>
        \A c \in ColonsBefore(pre.buffer) :
            (\A d \in ColonsBefore(pre.buffer) : d <= c) =>
                in.history = <<WithoutPassword(pre.buffer, c)>>

\* what the rule does with several colons: the first one separates
C16_FirstColon ==
    /\ input_history_strip_password(
           <<97, 58, 98, 58, 99, 64, 104, 111, 115, 116>>)
         = <<97, 64, 104, 111, 115, 116>>
    /\ (op = "push_history (url)" /\ pre.strip_password /\ pre.hist_name
          /\ ~HasVfsDelimiter(pre.buffer)
          /\ ColonsBefore(pre.buffer) # {}) =>
         \A c \in ColonsBefore(pre.buffer) :
             (\A d \in ColonsBefore(pre.buffer) : c <= d) =>
                 in.history = <<WithoutPassword(pre.buffer, c)>>

(***************************************************************************)
(* SpecOps: one operation on a widget in use: a key handled by             *)
(* input_handle_char, an event callback called by itself, a typed          *)
(* character, a mouse event, input_set_point or input_assign_text.  The    *)
(* widget holds any text within the bound, with or without completions, a  *)
(* pending lead byte in the assembler and an edit to push, or it is as     *)
(* input_new has left it, with its default text.                           *)
(***************************************************************************)
\* the longest text, in characters
MaxOps == 2

\* the names the keymap binds, but "Complete"
OpKeys == {"MarkLeft", "MarkRight", "MarkToWordBegin", "MarkToWordEnd",
           "MarkToHome", "MarkToEnd", "WordRight", "WordLeft", "Right",
           "Left", "Home", "End", "Backspace", "Delete", "DeleteToWordEnd",
           "DeleteToWordBegin", "Mark", "Remove", "DeleteToEnd", "Clear",
           "Store", "Cut", "Yank", "Paste", "HistoryPrev", "HistoryNext",
           "History", "EnterCtrlSeq"}

\* the names of the event callbacks
OpEvents == {"start_highlight", "stop_highlight", "begin_of_line",
             "end_of_line", "backward_char", "backward_word",
             "forward_char", "forward_word", "backspace", "delete",
             "kill_word", "back_kill_word", "mark", "remove",
             "delete_to_end", "clear_all", "clipboard_copy",
             "clipboard_cut", "yank", "clipboard_paste",
             "history_previous", "history_next", "history_show",
             "complete", "enter_ctrl_sequence"}

\* the stale bytes behind the terminator are of no account here: the mark
\* of these widgets lies within the text
InitOps ==
    \/ \E s \in Widgets(EditCols,
                        TextsOver({<<32>>, <<97>>, <<195, 169>>}, MaxOps),
                        {<<>>, << <<97>> >>}),
          comp \in BOOLEAN, pending \in {<<>>, <<195>>}, push \in BOOLEAN :
           Starts([s EXCEPT !.completions = comp, !.charbuf = pending,
                            !.need_push = push])
    \* the widget as input_new leaves it (first true), in an active dialog,
    \* with a default text
    \/ \E text \in TextsOver({<<32>>, <<97>>, <<195, 169>>}, MaxOps) :
           Starts([input_new(EditCols, text, TRUE, FALSE) EXCEPT
                      !.active = TRUE])

OpKey ==
    \E name \in OpKeys :
        Shot(name, input_handle_char(State, Key(name), Env0))

OpEvent ==
    \E ev \in OpEvents : Shot(ev, RunEvent(State, ev, Env0))

\* a key bound to nothing: a character, or a key above 255 (333); count is
\* its code
OpChar ==
    \E code \in {32, 97, 333} :
        /\ op = "init"
        /\ \E t \in {input_handle_char(State, [name |-> "", code |-> code],
                                        Env0)} : Becomes(t)
        /\ op' = IF code > 255 THEN "key above 255" ELSE "char"
        /\ pre' = State
        /\ count' = code

OpMouse ==
    \E type \in {{"DOWN"}, {"DRAG"}, {"UP"}}, x \in 1..(MaxOps + 1) :
        Shot(IF type = {"UP"} THEN "input_event (GPM_UP)" ELSE "input_event",
             input_event(State, type, x, Env0))

OpSetPoint ==
    \E pos \in 0..MaxOps :
        Shot("input_set_point", input_set_point(State, pos))

OpAssignText ==
    \E text \in {<<>>, <<97>>, <<195, 169, 32>>} :
        Shot("input_assign_text", input_assign_text(State, text))

NextOps ==
    \/ OpKey
    \/ OpEvent
    \/ OpChar
    \/ OpMouse
    \/ OpSetPoint
    \/ OpAssignText

SpecOps == InitOps /\ [][NextOps]_vars

(***************************************************************************)
(* C21: after any operation that has moved the cursor or changed the       *)
(* buffer, the completion command apart, the widget holds no completions:  *)
(* after the keys, a typed character, input_set_point, input_assign_text   *)
(* and a mouse click that puts the cursor elsewhere.                       *)
(***************************************************************************)
C21_CompletionsFreed ==
    (op \in OpKeys \cup {"char", "input_event", "input_set_point",
                         "input_assign_text"}
       /\ (in.point # pre.point \/ in.buffer # pre.buffer)) =>
        ~in.completions

\* the same without the mouse events
C21_CompletionsFreedButByMouse ==
    (op \in OpKeys \cup {"char", "input_set_point", "input_assign_text"}
       /\ (in.point # pre.point \/ in.buffer # pre.buffer)) =>
        ~in.completions

(***************************************************************************)
(* C22: every event callback leaves the assembler empty: whatever bytes    *)
(* are pending before it, charpoint is 0 when any of the 25 callbacks      *)
(* returns, forward-word, backward-word, start and stop of the highlight,  *)
(* mark and copy among them.                                               *)
(***************************************************************************)
C22_AssemblerReset ==
    op \in OpEvents => in.charbuf = <<>>

\* the callbacks that do empty it
C22_AssemblerResetBySome ==
    op \in {"begin_of_line", "end_of_line", "backward_char", "forward_char",
            "delete", "kill_word", "remove", "delete_to_end", "clear_all",
            "clipboard_cut", "enter_ctrl_sequence"} => in.charbuf = <<>>

(***************************************************************************)
(* C26: with no selection shown (highlight false), wherever the mark is,   *)
(* the copy and the cut command fall back on the clipboard file of the     *)
(* file manager: the kill ring is not written and, for cut, buffer and     *)
(* point stay as they were.                                                *)
(***************************************************************************)
C26_NoSelectionNoKill ==
    /\ (op \in {"clipboard_copy", "clipboard_cut", "Store", "Cut"}
          /\ ~pre.highlight) => kill_buffer = pre.kill_buffer
    /\ (op \in {"clipboard_cut", "Cut"} /\ ~pre.highlight) =>
         in.buffer = pre.buffer /\ in.point = pre.point

\* the same where the mark is at the cursor
C26_NoKillAtMark ==
    /\ (op \in {"clipboard_copy", "clipboard_cut", "Store", "Cut"}
          /\ pre.mark = pre.point) => kill_buffer = pre.kill_buffer
    /\ (op \in {"clipboard_cut", "Cut"} /\ pre.mark = pre.point) =>
         in.buffer = pre.buffer /\ in.point = pre.point

(***************************************************************************)
(* C27: delete-forward with the cursor at the end of the text, no          *)
(* selection and first false changes nothing: buffer, point, mark,         *)
(* highlight and need_push keep their values.                              *)
(***************************************************************************)
C27_DeleteAtEnd ==
    (op \in {"delete", "Delete"} /\ pre.point = str_length(pre.buffer)
       /\ ~pre.highlight /\ ~pre.first) =>
        /\ in.buffer = pre.buffer
        /\ in.point = pre.point
        /\ in.mark = pre.mark
        /\ in.highlight = pre.highlight
        /\ in.need_push = pre.need_push

\* the same, but need_push
C27_DeleteAtEndButPush ==
    (op \in {"delete", "Delete"} /\ pre.point = str_length(pre.buffer)
       /\ ~pre.highlight /\ ~pre.first) =>
        /\ in.buffer = pre.buffer
        /\ in.point = pre.point
        /\ in.mark = pre.mark
        /\ in.highlight = pre.highlight
        /\ in.need_push

(***************************************************************************)
(* C28: input_assign_text (text), in any state, a selection shown or not,  *)
(* leaves the buffer equal to the text, point at its length in characters, *)
(* the assembler and the completions empty and no selection (highlight     *)
(* false).                                                                 *)
(***************************************************************************)
C28_AssignText ==
    op = "input_assign_text" =>
        /\ in.buffer \in {<<>>, <<97>>, <<195, 169, 32>>}
        /\ in.point = str_length(in.buffer)
        /\ in.charbuf = <<>>
        /\ ~in.completions
        /\ ~in.highlight

\* the same, but highlight
C28_AssignTextButHighlight ==
    op = "input_assign_text" =>
        /\ in.buffer \in {<<>>, <<97>>, <<195, 169, 32>>}
        /\ in.point = str_length(in.buffer)
        /\ in.charbuf = <<>>
        /\ ~in.completions
        /\ in.highlight = pre.highlight

(***************************************************************************)
(* The assembler (charbuf, charpoint), under SpecType.                     *)
(***************************************************************************)
\* what insert_char (c_code) is to leave of the assembler, by what
\* str_is_valid_char says of the bytes pending with the new one behind them
Assembled(c_code) ==
    IF c_code = -1 THEN in'.charbuf = in.charbuf
    ELSE IF str_is_valid_char(Append(in.charbuf, ToByte(c_code))) = -2
    THEN /\ Len(in'.charbuf) = Len(in.charbuf) + 1
         /\ in'.buffer = in.buffer
         /\ in'.point = in.point
    ELSE in'.charbuf = <<>>

\* an assembler holding MB_LEN_MAX bytes, which no typing reaches: an
\* incomplete sequence is never longer than a character less one byte
FullAssembler == [State EXCEPT !.charbuf = [i \in 1..MB_LEN_MAX |-> 169]]

(***************************************************************************)
(* C23: the assembler never holds more than MB_LEN_MAX bytes; after a byte *)
(* that completes a character or is rejected as a broken sequence charpoint*)
(* is 0, after a byte that leaves the sequence incomplete charpoint has    *)
(* grown by one and buffer and point are as before; a byte that finds      *)
(* MB_LEN_MAX bytes pending is ignored, buffer and point unchanged.        *)
(***************************************************************************)
C23_Assembler ==
    /\ [](/\ Len(in.charbuf) <= MB_LEN_MAX
          /\ \A c_code \in Codes :
                insert_char(FullAssembler, c_code, Env0) = FullAssembler)
    /\ [][\A c_code \in Codes :
              in' = WInputOf(insert_char(State, c_code, Env0)) =>
                  Assembled(c_code)]_vars

\* a lead byte is pending behind a character typed
C23_Witness ==
    /\ op = "insert_char"
    /\ Len(in.charbuf) = 1
    /\ in.buffer # <<>>

(***************************************************************************)
(* SpecView: one redraw of a widget of an active dialog, by itself or      *)
(* behind input_assign_text, and what it puts on the screen.  The widget   *)
(* is narrow or wide, with and without history button, in password mode or *)
(* not; its text, its cursor and its first column shown are any within the *)
(* bound, as updates that were disabled leave them.                        *)
(***************************************************************************)
\* the longest text, in characters
MaxView == 5

\* the widths: one column, three, and the narrowest that shows the button
ViewCols == {1, HISTORY_BUTTON_WIDTH, EditCols}

ViewTexts == TextsOver({<<97>>, <<195, 169>>}, MaxView)

\* input_update: the columns the history button takes
has_history(s) ==
    IF should_show_history_button(s) THEN HISTORY_BUTTON_WIDTH ELSE 0

\* input_update: the text printed when the widget is no password field and
\* shows no selection (blanks follow it up to the width)
input_update_text(s) ==
    str_term_substring(s.buffer, s.term_first_shown, s.cols - has_history(s))

\* a faulty variant: a blank is printed for a blank of the text
input_update_password_blanks(s) ==
    [i \in 1..(s.cols - has_history(s)) |->
        IF i - 1 < str_length(s.buffer) - s.term_first_shown
           /\ i - 1 < str_length(input_update_text(s))
           /\ Chars(input_update_text(s))[i] # <<97>>
        THEN 42 ELSE 32]

\* input_update: the characters printed for a password field, the i-th
\* with cp advanced over i - 1 characters of the text shown
input_update_password(s) ==
    [i \in 1..(s.cols - has_history(s)) |->
        IF i - 1 < str_length(s.buffer) - s.term_first_shown
           /\ i - 1 < str_length(input_update_text(s))
        THEN 42 ELSE 32]

InitView ==
    \E width \in ViewCols, b \in ViewTexts, p \in 0..MaxView,
       shown \in 0..MaxView, h \in {<<>>, << <<97>> >>}, pw \in BOOLEAN :
        /\ p <= str_length(b)
        /\ Starts([Widget(width, b, p, 0, FALSE, <<>>) EXCEPT
                      !.term_first_shown = shown, !.history = h,
                      !.hist_current = Len(h), !.is_password = pw])

Redraw ==
    \E clear_first \in BOOLEAN :
        Shot("input_update", input_update(State, clear_first))

\* the texts assigned: empty, one character, as wide as the narrow widget
\* and as wide as the wide one beside its button, and one of two bytes
AssignTexts ==
    {[i \in 1..n |-> 97] :
        n \in {0, 1, HISTORY_BUTTON_WIDTH, EditCols - HISTORY_BUTTON_WIDTH}}
      \cup {<<195, 169, 97>>}

AssignRedraw ==
    \E text \in AssignTexts :
        Shot("input_assign_text,input_update",
             input_update(input_assign_text(State, text), FALSE))

NextView ==
    \/ Redraw
    \/ AssignRedraw

SpecView == InitView /\ [][NextView]_vars

(***************************************************************************)
(* C24: after every redraw (input_update with updates enabled, on a widget *)
(* of width >= 1 in an active dialog) the first column shown is not        *)
(* negative and the cursor's column lies in [first shown, first shown +    *)
(* visible width), the visible width being the width less the history      *)
(* button's when it is shown; a cursor that was inside that window already *)
(* leaves the first column shown as it was.                                *)
(***************************************************************************)
C24_CursorVisible ==
    op = "input_update" =>
        /\ in.term_first_shown >= 0
        /\ str_term_width2(in.buffer, in.point) >= in.term_first_shown
        /\ str_term_width2(in.buffer, in.point)
             < in.term_first_shown + in.cols - has_history(State)
        /\ (/\ str_term_width2(pre.buffer, pre.point) >= pre.term_first_shown
            /\ str_term_width2(pre.buffer, pre.point)
                 < pre.term_first_shown + pre.cols - has_history(pre))
             => in.term_first_shown = pre.term_first_shown

\* the redraw has scrolled a widget with history button to its cursor
C24_Witness ==
    /\ op = "input_update"
    /\ has_history(State) = HISTORY_BUTTON_WIDTH
    /\ in.term_first_shown > 0
    /\ in.term_first_shown # pre.term_first_shown

\* a cursor inside the window of a scrolled widget: nothing moves
C24_WitnessInside ==
    /\ op = "input_update"
    /\ pre.term_first_shown > 0
    /\ in.point > pre.term_first_shown
    /\ in.term_first_shown = pre.term_first_shown

(***************************************************************************)
(* C29: for every text no wider than the visible width (as wide as it      *)
(* included), input_assign_text (text) and a redraw, with no password mode *)
(* and no selection, show a window whose text is the text itself: the      *)
(* window is not scrolled.                                                 *)
(***************************************************************************)
C29_AssignedTextShown ==
    (op = "input_assign_text,input_update" /\ ~in.is_password
       /\ ~in.highlight
       /\ str_term_width1(in.buffer) <= in.cols - has_history(State)) =>
        /\ input_update_text(State) = in.buffer
        /\ in.term_first_shown = 0

\* the same for a text narrower than the window of a widget not scrolled
\* before
C29_NarrowerTextShown ==
    (op = "input_assign_text,input_update" /\ ~in.is_password
       /\ ~in.highlight /\ pre.term_first_shown = 0
       /\ str_term_width1(in.buffer) < in.cols - has_history(State)) =>
        /\ input_update_text(State) = in.buffer
        /\ in.term_first_shown = 0

\* the text of as many characters, all of them 'a': any two texts of one
\* length are drawn alike when each is drawn like this one
SameLength(text) == [i \in 1..str_length(text) |-> 97]

\* the redraw of a password field prints as many mask characters as
\* characters are visible, and blanks behind them
Masked(s) ==
    [i \in 1..(s.cols - has_history(s)) |->
        IF i <= min(max(str_length(s.buffer) - s.term_first_shown, 0),
                    s.cols - has_history(s))
        THEN 42 ELSE 32]

(***************************************************************************)
(* C30: in password mode what is drawn depends on the length of the text,  *)
(* the first column shown and the width, never on the characters: two      *)
(* buffers of as many characters, with the same point and first column     *)
(* shown, are drawn alike, as one mask character for each visible          *)
(* character and blanks behind them.                                       *)
(***************************************************************************)
C30_PasswordMasked ==
    (op = "input_update" /\ in.is_password) =>
        /\ input_update_password(State) = Masked(State)
        /\ input_update([pre EXCEPT !.buffer = SameLength(pre.buffer)],
                        FALSE).term_first_shown = in.term_first_shown
        /\ input_update_password(
               [State EXCEPT !.buffer = SameLength(in.buffer)])
             = input_update_password(State)

\* a password partly shown: mask characters and blanks are drawn
C30_Witness ==
    /\ op = "input_update"
    /\ in.is_password
    /\ in.term_first_shown > 0
    /\ str_length(in.buffer) > in.term_first_shown + 1
    /\ str_length(in.buffer) - in.term_first_shown
         < in.cols - has_history(State)
    /\ \E i \in 1..Len(in.buffer) : in.buffer[i] = 97
    /\ \E i \in 1..Len(in.buffer) : in.buffer[i] = 195

(***************************************************************************)
(* SpecInsert: input_insert, call by call: input_disable_update, an        *)
(* input_handle_char for every byte of the text and for the extra space,   *)
(* input_enable_update, input_update; and, where the caller had disabled   *)
(* the updates itself, the caller's input_enable_update behind it.  Here   *)
(* op is the call made last, count the number of times the widget has been *)
(* drawn since input_insert was entered, and pre holds what the run still  *)
(* needs: the bytes of the text not yet inserted (text), whether a space   *)
(* follows them (space) and the disable counter at the call (depth).       *)
(***************************************************************************)
\* the longest text inserted, in characters
MaxInsert == 2

\* input_update: the times one call of it draws the widget
input_update_draws(s) ==
    IF s.disable_update # 0 THEN 0
    ELSE IF ~s.active THEN 0
    ELSE 1

InitInsert ==
    \E s \in Widgets(EditCols, TextsOver({<<97>>}, 1), {<<>>}),
       depth \in {0, 1}, text \in Texts(MaxInsert), space \in BOOLEAN :
        /\ in = WInputOf([s EXCEPT !.disable_update = depth])
        /\ kill_buffer = s.kill_buffer
        /\ op = "init"
        /\ pre = [text |-> text, space |-> space, depth |-> depth]
        /\ count = 0

InsertDisable ==
    /\ op = "init"
    /\ Becomes(input_disable_update(State))
    /\ op' = "input_disable_update"
    /\ UNCHANGED <<pre, count>>

\* the bytes of the text and then the extra space, each a key the keymap
\* does not handle: input_handle_char calls input_update once, behind
\* insert_char
InsertChar ==
    /\ op \in {"input_disable_update", "input_handle_char"}
    /\ pre.text # <<>> \/ pre.space
    /\ Becomes(input_handle_char(
                   State,
                   [name |-> "",
                    code |-> IF pre.text # <<>> THEN pre.text[1] ELSE 32],
                   Env0))
    /\ op' = "input_handle_char"
    /\ pre' = IF pre.text # <<>> THEN [pre EXCEPT !.text = Tail(pre.text)]
              ELSE [pre EXCEPT !.space = FALSE]
    /\ count' = count + input_update_draws(State)

InsertEnable ==
    /\ op \in {"input_disable_update", "input_handle_char"}
    /\ pre.text = <<>>
    /\ ~pre.space
    /\ Becomes(input_enable_update(State))
    /\ op' = "input_enable_update"
    /\ pre' = pre
    /\ count' = count + input_update_draws(
                            [State EXCEPT
                                !.disable_update = in.disable_update - 1])

InsertUpdate ==
    /\ op = "input_enable_update"
    /\ Becomes(input_update(State, TRUE))
    /\ op' = "input_update"
    /\ pre' = pre
    /\ count' = count + input_update_draws(State)

\* input_insert has returned; the caller enables the updates it disabled
CallerEnable ==
    /\ op = "input_update"
    /\ in.disable_update > 0
    /\ Becomes(input_enable_update(State))
    /\ op' = "caller's input_enable_update"
    /\ pre' = pre
    /\ count' = count + input_update_draws(
                            [State EXCEPT
                                !.disable_update = in.disable_update - 1])

NextInsert ==
    \/ InsertDisable
    \/ InsertChar
    \/ InsertEnable
    \/ InsertUpdate
    \/ CallerEnable

SpecInsert == InitInsert /\ [][NextInsert]_vars

(***************************************************************************)
(* C25: input_insert of a text of any length, on a widget of an active     *)
(* dialog with the disable counter at 0, draws nothing while the           *)
(* characters are inserted and draws once when the batch is complete; with *)
(* nested disable/enable pairs nothing is drawn until the outermost enable *)
(* takes the counter back to 0.                                            *)
(***************************************************************************)
C25_OneRedraw ==
    /\ op \in {"input_disable_update", "input_handle_char"} => count = 0
    /\ (op = "input_update" /\ pre.depth = 0) => count = 1
    /\ in.disable_update > 0 => count = 0

\* the same, with the two redraws behind the batch
C25_TwoRedraws ==
    /\ op \in {"input_disable_update", "input_handle_char"} => count = 0
    /\ (op = "input_enable_update" /\ pre.depth = 0) => count = 1
    /\ (op = "input_update" /\ pre.depth = 0) => count = 2
    /\ in.disable_update > 0 => count = 0
    /\ op = "caller's input_enable_update" => count = 1

(***************************************************************************)
(* SpecLine: a narrow widget of an active dialog, from the empty buffer on,*)
(* under insert_char with g_try_renew finding memory or not, under         *)
(* input_assign_text with texts shorter and longer than the widget, and    *)
(* under the keys.  Here op is the operation made last, pre the state it   *)
(* was made in and count the code handed to insert_char last.              *)
(***************************************************************************)
\* the longest buffer, in characters
MaxLine == 2

\* an operation of the line specification, within its bound
Made(name, s) ==
    /\ \E t \in {s} :
          /\ str_length(t.buffer) <= MaxLine
          /\ Becomes(t)
    /\ op' = name
    /\ pre' = State

InitLine == Starts(Widget(NarrowCols, <<>>, 0, 0, FALSE, <<>>))

\* the state insert_char finds behind its removal of the selection
Unselected(s) ==
    IF s.highlight
    THEN delete_region(s, input_eval_marks(s)[2], input_eval_marks(s)[3],
                       <<>>)
    ELSE s

\* insert_char was handed a byte that completes a character and found the
\* buffer too small for it
Grows(s, c_code) ==
    /\ Completes(Unselected(s), c_code)
    /\ Len(Unselected(s).buffer) + 1 + Len(Unselected(s).charbuf) + 1
         >= s.current_max_size

\* the codes handed to insert_char: 'a', the bytes of U+00E9, no key
LineCodes == {97, 195, 169, -1}

LineInsert ==
    \E c_code \in LineCodes, alloc \in BOOLEAN :
        /\ alloc \/ Grows(State, c_code)
        /\ Made(IF alloc THEN "insert_char"
                ELSE "insert_char, g_try_renew fails",
                insert_char(State, c_code,
                            Env(alloc, <<>>, 97, <<>>, <<>>, FALSE)))
        /\ count' = c_code

LineAssign ==
    \E text \in {<<>>, <<97>>, <<195, 169, 97>>} :
        /\ Made("input_assign_text", input_assign_text(State, text))
        /\ count' = -1

\* the keys that extend the selection, and keys that move and delete
LineKeys == {"MarkLeft", "MarkRight", "MarkToHome", "Left", "Backspace",
             "Delete", "Clear"}

LineKey ==
    \E name \in LineKeys :
        /\ Made(name, input_handle_char(State, Key(name), Env0))
        /\ count' = -1

NextLine ==
    \/ LineInsert
    \/ LineAssign
    \/ LineKey

SpecLine == InitLine /\ [][NextLine]_vars

(***************************************************************************)
(* C31: when the buffer cannot grow for an insert (the allocator returns   *)
(* no memory) the insert is dropped: the bytes of the buffer, the capacity *)
(* and point are as before the call and the assembler is empty; nothing is *)
(* written past the old capacity.                                          *)
(***************************************************************************)
C31_GrowthFailureDrops ==
    (op = "insert_char, g_try_renew fails" /\ Grows(pre, count)) =>
        /\ in.buffer = Unselected(pre).buffer
        /\ in.current_max_size = pre.current_max_size
        /\ in.point = Unselected(pre).point
        /\ in.charbuf = <<>>
        /\ Len(in.buffer) + 1 <= pre.current_max_size

\* the same, with the character inserted where the old buffer has room for
\* it and its terminator
C31_GrowthFailureKeepsCapacity ==
    (op = "insert_char, g_try_renew fails" /\ Grows(pre, count)) =>
        /\ in.current_max_size = pre.current_max_size
        /\ in.charbuf = <<>>
        /\ Len(in.buffer) + 1 <= pre.current_max_size
        /\ IF Len(Unselected(pre).buffer) + Len(Unselected(pre).charbuf) + 1
                < pre.current_max_size
           THEN /\ Len(in.buffer) = Len(Unselected(pre).buffer)
                                     + Len(Unselected(pre).charbuf) + 1
                /\ in.point = Unselected(pre).point + 1
           ELSE /\ in.buffer = Unselected(pre).buffer
                /\ in.point = Unselected(pre).point

(***************************************************************************)
(* C32: in every reachable state the capacity (current_max_size) is at     *)
(* least the length of the buffer in bytes plus 1, across inserts with and *)
(* without growth, input_assign_text of texts shorter and longer than the  *)
(* widget, deletions and clears; an insert that grows the buffer adds the  *)
(* width of the widget and the bytes of the pending character to it.       *)
(***************************************************************************)
C32_Capacity ==
    /\ in.current_max_size >= Len(in.buffer) + 1
    /\ (op = "insert_char"
          /\ in.current_max_size # pre.current_max_size) =>
         in.current_max_size
           = pre.current_max_size + pre.cols
               + Len(Unselected(pre).charbuf) + 1

\* the buffer has grown for the second byte of U+00E9
C32_Witness ==
    /\ op = "insert_char"
    /\ pre.charbuf = <<195>>
    /\ in.current_max_size = pre.current_max_size + pre.cols + 2
    /\ Len(in.buffer) = Len(pre.buffer) + 2

\* a text longer than the widget has been assigned and shortened
C32_WitnessAssigned ==
    /\ op \in {"Backspace", "Clear"}
    /\ pre.buffer = <<195, 169, 97>>
    /\ in.buffer # pre.buffer
    /\ in.current_max_size = 1 + 3

(***************************************************************************)
(* C34: a byte that does not yet complete a character, or the value -1,    *)
(* handed to insert_char changes nothing of the text: the buffer and point *)
(* are as before, also when a selection is active.                         *)
(***************************************************************************)
C34_IncompleteByteKeepsText ==
    (op \in {"insert_char", "insert_char, g_try_renew fails"}
       /\ ~Completes(Unselected(pre), count)) =>
        /\ in.buffer = pre.buffer
        /\ in.point = pre.point

\* the same without a selection of some characters
C34_IncompleteByteKeepsTextUnselected ==
    (op \in {"insert_char", "insert_char, g_try_renew fails"}
       /\ ~Completes(Unselected(pre), count)
       /\ (~pre.highlight \/ pre.mark = pre.point)) =>
        /\ in.buffer = pre.buffer
        /\ in.point = pre.point

\* the keys of the line specification that extend the selection
SelectKeys == {"MarkLeft", "MarkRight", "MarkToHome"}

(***************************************************************************)
(* C33: a key bound to a selection-extend command keeps the selection      *)
(* alive through the pass of input_handle_char in which it is issued, and  *)
(* any other key handled by input_handle_char ends with highlight false;   *)
(* over consecutive selection-extend keys the mark stays at the point      *)
(* where the first was issued.  is_highlight_cmd is false after every      *)
(* pass.                                                                   *)
(***************************************************************************)
C33_SelectionExtend ==
    /\ op \in SelectKeys =>
         /\ in.highlight
         /\ in.mark = IF pre.highlight THEN pre.mark ELSE pre.point
    /\ op \in LineKeys \ SelectKeys => ~in.highlight
    /\ op \in LineKeys => ~in.is_highlight_cmd

\* a second selection-extend key has moved the cursor away from the mark
\* the first one set
C33_Witness ==
    /\ op \in SelectKeys
    /\ pre.highlight
    /\ pre.mark # pre.point
    /\ in.mark = pre.mark
    /\ in.point # pre.point
    /\ in.point # in.mark

(***************************************************************************)
(* C35: a mouse event that is a button release only (GPM_UP without        *)
(* GPM_DOWN or GPM_DRAG) inside the widget changes nothing: point, mark,   *)
(* highlight and buffer are after it as before it, a selection active or   *)
(* not.                                                                    *)
(***************************************************************************)
C35_LoneUp ==
    op = "input_event (GPM_UP)" =>
        /\ in.point = pre.point
        /\ in.mark = pre.mark
        /\ in.highlight = pre.highlight
        /\ in.buffer = pre.buffer

\* the same where a selection is shown
C35_LoneUpOnSelection ==
    (op = "input_event (GPM_UP)" /\ pre.highlight) =>
        /\ in.point = pre.point
        /\ in.mark = pre.mark
        /\ in.highlight = pre.highlight
        /\ in.buffer = pre.buffer

\* and where none is shown: the mark is set at the cursor and the selection
\* shown
C35_LoneUpMarks ==
    (op = "input_event (GPM_UP)" /\ ~pre.highlight) =>
        /\ in.point = pre.point
        /\ in.mark = pre.point
        /\ in.highlight
        /\ in.buffer = pre.buffer

\* the keys and the event callbacks that edit the text
EditOps == {"char", "Backspace", "Delete", "DeleteToWordEnd",
            "DeleteToWordBegin", "Remove", "Cut", "DeleteToEnd", "Clear",
            "Yank", "Paste", "backspace", "delete", "kill_word",
            "back_kill_word", "remove", "clipboard_cut", "delete_to_end",
            "clear_all", "yank", "clipboard_paste"}

(***************************************************************************)
(* C36: every command that changes the content of the buffer marks the     *)
(* edit as pending for the history: need_push is true after insert,        *)
(* backspace, delete, delete-word forward and backward, remove, cut,       *)
(* delete-to-end-of-line, clear-all, yank and paste.                       *)
(***************************************************************************)
C36_EditPending ==
    (op \in EditOps /\ in.buffer # pre.buffer) => in.need_push

(***************************************************************************)
(* C37: whenever point > 0 and no selection of some characters exists      *)
(* (highlight false, or mark = point), the backspace command removes the   *)
(* one character before the cursor and moves point back by it.             *)
(***************************************************************************)
C37_Backspace ==
    (op \in {"backspace", "Backspace"} /\ pre.point > 0
       /\ (~pre.highlight \/ pre.mark = pre.point)) =>
        /\ in.buffer = Replaced(pre.buffer, pre.point - 1, pre.point, <<>>)
        /\ in.point = pre.point - 1

\* C36 without delete-to-end-of-line
C36_EditPendingButDeleteToEnd ==
    (op \in EditOps \ {"DeleteToEnd", "delete_to_end"}
       /\ in.buffer # pre.buffer) => in.need_push

\* C37 where no selection is shown
C37_BackspaceUnselected ==
    (op \in {"backspace", "Backspace"} /\ pre.point > 0
       /\ ~pre.highlight) =>
        /\ in.buffer = Replaced(pre.buffer, pre.point - 1, pre.point, <<>>)
        /\ in.point = pre.point - 1

\* and where an empty selection is shown: nothing is removed
C37_BackspaceOnEmptySelection ==
    (op \in {"backspace", "Backspace"} /\ pre.highlight
       /\ pre.mark = pre.point) =>
        /\ in.buffer = pre.buffer
        /\ in.point = pre.point

(***************************************************************************)
(* C38: with a non-empty history, password stripping off and a buffer text *)
(* T that is not blank, history-previous followed at once by history-next  *)
(* leaves the buffer equal to T again, for every content of the history, a *)
(* history whose only entry equals T included.                             *)
(***************************************************************************)
C38_BackAndForth ==
    (op = "HistoryPrev,HistoryNext" /\ pre.history # <<>>
       /\ ~pre.strip_password /\ ~IsBlank(pre.buffer)) =>
        in.buffer = pre.buffer

\* the same where history-previous has an entry to step back to: an edit is
\* pending whose text is not the newest entry
C38_BackAndForthPushed ==
    (op = "HistoryPrev,HistoryNext" /\ pre.history # <<>>
       /\ ~pre.strip_password /\ ~IsBlank(pre.buffer)
       /\ pre.need_push /\ Newest(pre.history) # <<pre.buffer>>) =>
        in.buffer = pre.buffer

(***************************************************************************)
(* C39: once a history-previous has run, any further history-previous and  *)
(* history-next with no edit in between leave the list of entries          *)
(* unchanged: browsing alone, stepping past the newest entry and back      *)
(* included, never adds an entry, no empty one in particular.              *)
(***************************************************************************)
C39_BrowsingAddsNothing ==
    [][(op = "HistoryPrev,HistoryNext" /\ pre.history # <<>>
          /\ ~pre.need_push /\ in.history = pre.history
          /\ op' \in {"HistoryPrev", "HistoryNext"}) =>
           in'.history = in.history]_vars

\* a browsing key that finds no edit pending leaves the list unchanged
C39_NothingPendingAddsNothing ==
    (op \in {"HistoryPrev", "HistoryNext"} /\ ~pre.need_push) =>
        in.history = pre.history

(***************************************************************************)
(* C40: on a widget not touched since its creation (first true) that holds *)
(* a default text, the first plain character key replaces the whole text   *)
(* (the buffer is that character, point is 1) and the delete command       *)
(* empties the buffer; after a pass of input_handle_char that has handled  *)
(* the key, on a widget of an active dialog, first is false, and a         *)
(* character typed where first is false is inserted at the cursor.         *)
(***************************************************************************)
C40_FirstKey ==
    /\ (op = "char" /\ pre.first) =>
         in.buffer = <<count>> /\ in.point = 1
    /\ (op \in {"Delete", "delete"} /\ pre.first) =>
         in.buffer = <<>> /\ in.point = 0
    /\ op \in OpKeys \cup {"char"} => ~in.first
    /\ (op = "char" /\ ~pre.first /\ ~pre.highlight
          /\ pre.charbuf = <<>>) =>
         /\ in.buffer = BytesBefore(pre.buffer,
                            str_offset_to_pos(pre.buffer, pre.point))
                        \o <<count>>
                        \o BytesFrom(pre.buffer,
                               str_offset_to_pos(pre.buffer, pre.point))
         /\ in.point = pre.point + 1

\* a space has replaced a default text of two characters
C40_Witness ==
    /\ op = "char"
    /\ pre.first
    /\ str_length(pre.buffer) = 2
    /\ in.buffer = <<32>>
    /\ in.point = 1
    /\ ~in.first

\* the delete key has emptied a default text
C40_WitnessDelete ==
    /\ op = "Delete"
    /\ pre.first
    /\ pre.buffer = <<97, 195, 169>>
    /\ in.buffer = <<>>
    /\ ~in.first

\* a key above 255 that the keymap binds to nothing is not handled and
\* leaves first as it is
C40_KeyNotHandled ==
    op = "key above 255" =>
        /\ in.first = pre.first
        /\ in.buffer = pre.buffer
        /\ in.point = pre.point
====
